---- MODULE Spec2Model ----
(***************************************************************************)
(* State-machine model of the mean-line axial turbine analyser:            *)
(*   - the operating-point driver  (meanline/performance_analysis.py),     *)
(*   - the series assembler        (meanline/cascade_series.py),           *)
(*   - the geometry validation     (meanline/geometry.py),                 *)
(*   - the choking sub-solver      (axial_turbine/choking_model.py).       *)
(*                                                                         *)
(* Conventions.  Python lists are sequences, so the 0-based index i of the *)
(* code is i + 1 here.  Python dicts with insertion order are sequences of *)
(* keys.  Real numbers are carried as integers in a stated unit.           *)
(***************************************************************************)
EXTENDS Integers, Sequences, FiniteSets, TLC

VARIABLES
    \* ---- compute_performance --------------------------------------------
    operation_points,      \* the validated-or-not list handed to the driver
    configured_method,     \* cascades_data["solver"]["method"]
    pc,                    \* position in compute_performance / compute_single_operation_point
    error,                 \* exception that left compute_performance ("none" if none)
    output_dir_exists,     \* os.path.exists(output_dir)
    created,               \* artefacts created on disk by this call
    index,                 \* 1-based index of the operating point being processed
    initial_guess,         \* x0 handed to compute_single_operation_point
    guess_index,           \* per processed point: closest_index + 1 (0 = default guess)
    operation_point_data,
    overall_data,
    plane_data,
    cascade_data,
    stage_data,
    solver_data,
    solution_data,
    \* ---- compute_single_operation_point ---------------------------------
    method,                \* local variable `method`
    success,               \* local variable `success`
    solver,                \* the solver object last created
    variant,               \* loop index of the sweep over heuristic variants
    attempts,              \* solver attempts made for the current point, in order
    any_converged,         \* some attempt made for the current point has converged
    case_data,             \* the dict shared by all points: for each part, the point
                           \* whose processing wrote it last (0 = not written yet)
    \* ---- evaluate_cascade_series ----------------------------------------
    geometry,              \* the geometry record (the per-cascade arrays the model needs)
    choking_condition,     \* model_options["choking_condition"]
    angular_speed,         \* boundary_conditions["omega"]
    series_pc,             \* position in the geometry validation / series evaluation
    series_error,          \* exception that left the evaluation ("none" if none)
    cascade,               \* 1-based index of the cascade being evaluated (i + 1)
    variables_read,        \* keys of `variables` read so far
    residuals,             \* keys of the residuals dict, in insertion order
    results_plane,         \* rows of results["plane"]
    results_cascade,       \* rows of results["cascade"]
    interspace_calls,      \* calls of evaluate_cascade_interspace made so far
    oracle_failed,         \* the property oracle has raised during this evaluation
    \* ---- evaluate_choking -----------------------------------------------
    choking_model,         \* model_options["choking_model"]
    choking_pc,            \* position of the evaluate_choking call
    choking_input_read,    \* keys of choking_input read by the selected mode
    residuals_critical,    \* keys of the residuals dict the selected mode returns
    \* ---- calls of the functions without state -----------------------------
    call,                  \* the function called and its arguments
    result                 \* what the call returned (or the exception it raised)

driver_vars == << operation_points, configured_method, pc, error, output_dir_exists,
                  created, index,
                  initial_guess, guess_index, operation_point_data, overall_data,
                  plane_data, cascade_data, stage_data, solver_data, solution_data,
                  method, success, solver, variant, attempts, any_converged,
                  case_data >>

series_vars == << geometry, choking_condition, angular_speed, series_pc, series_error,
                  cascade, variables_read, residuals, results_plane, results_cascade,
                  interspace_calls, oracle_failed >>

choking_vars == << choking_model, choking_pc, choking_input_read, residuals_critical >>

call_vars == << call, result >>

vars == << driver_vars, series_vars, choking_vars, call_vars >>

(***************************************************************************)
(* Bounds of the model.                                                    *)
(***************************************************************************)
MaxPoints == 3

(***************************************************************************)
(* Small helpers.                                                          *)
(***************************************************************************)
Abs(a) == IF a < 0 THEN -a ELSE a

Max2(a, b) == IF a >= b THEN a ELSE b

Last(s) == s[Len(s)]

SeqsUpTo(S, n) == UNION { [1..k -> S] : k \in 1..n }

(***************************************************************************)
(* Operating points.  A point is a Python dict: a function from its keys.  *)
(* alpha_in is carried in units of (pi/2)/HALF_PI, every other number in   *)
(* its own unit.                                                           *)
(***************************************************************************)
REQUIRED_FIELDS == {"fluid_name", "p0_in", "T0_in", "p_out", "alpha_in", "omega"}

\* pi/2 expressed in the angle unit of the model; relative deviations are
\* carried as multiples of 1/HALF_PI so that they stay integers.
HALF_PI == 12

\* keys whose value passes isinstance(value, (int, float))
NUMERIC_FIELDS == REQUIRED_FIELDS \ {"fluid_name"}

ValidPoint(p_out, alpha_in) ==
    [fluid_name |-> "air", p0_in |-> 4, T0_in |-> 3, p_out |-> p_out,
     alpha_in |-> alpha_in, omega |-> 1]

PointMissingField == [fluid_name |-> "air", p0_in |-> 4, T0_in |-> 3, p_out |-> 2,
                      alpha_in |-> 0]

PointExtraField == [fluid_name |-> "air", p0_in |-> 4, T0_in |-> 3, p_out |-> 2,
                    alpha_in |-> 0, omega |-> 1, T_out |-> 2]

ValidPointChoices == {ValidPoint(1, 0), ValidPoint(2, 6)}

InvalidPointChoices == {PointMissingField, PointExtraField}

\* a validation that only asks for the required fields to be present
validate_required_present(op_point) == REQUIRED_FIELDS \subseteq DOMAIN op_point

\* validate_operation_point: TRUE when it returns, FALSE when it raises ValueError
validate_operation_point(op_point) == DOMAIN op_point = REQUIRED_FIELDS

\* one entry of deviation_array, times HALF_PI
deviation(key, value_1, value_2) ==
    IF key = "alpha_in"
    THEN Abs(value_1 - value_2)
    ELSE LET m == Max2(Abs(value_1), Abs(value_2))
         IN  IF m = 0 THEN 0                       \* max_val = delta, numerator 0
             ELSE (Abs(value_1 - value_2) * HALF_PI) \div m

RECURSIVE SumSquares(_, _, _)
SumSquares(keys, point_1, point_2) ==
    IF keys = {} THEN 0
    ELSE LET key == CHOOSE k \in keys : TRUE
             d   == deviation(key, point_1[key], point_2[key])
         IN  d * d + SumSquares(keys \ {key}, point_1, point_2)

\* get_operation_point_distance: the square of the two-norm, times HALF_PI^2
\* (the square root is monotone, so comparisons of distances are preserved)
get_operation_point_distance(point_1, point_2) ==
    SumSquares((DOMAIN point_1 \cap NUMERIC_FIELDS) \cap DOMAIN point_2, point_1, point_2)

\* a scan that lets a later point at the same distance replace the earlier one
is_closer_or_equal(distance, min_distance, closest_index) ==
    closest_index = 0 \/ distance <= min_distance

\* the test `distance < min_distance` of find_closest_operation_point;
\* closest_index = 0 stands for min_distance = inf
is_closer(distance, min_distance, closest_index) ==
    closest_index = 0 \/ distance < min_distance

RECURSIVE closest_scan(_, _, _, _, _)
closest_scan(current_op_point, ops, i, min_distance, closest_index) ==
    IF i > Len(ops) THEN closest_index
    ELSE LET distance == get_operation_point_distance(current_op_point, ops[i])
         IN  IF is_closer(distance, min_distance, closest_index)
             THEN closest_scan(current_op_point, ops, i + 1, distance, i)
             ELSE closest_scan(current_op_point, ops, i + 1, min_distance, closest_index)

\* find_closest_operation_point: the 1-based index of the closest point
find_closest_operation_point(current_op_point, ops) ==
    closest_scan(current_op_point, ops, 1, 0, 0)

(***************************************************************************)
(* Initial guesses and the solver object.                                  *)
(* Efficiencies, degree of reaction and Mach numbers are in thousandths.   *)
(***************************************************************************)
NoneGuess == [kind |-> "None"]

\* cs.scale_to_real_values(solver.solution.x, case_data) stored for `point`
ArrayGuess(point, converged) == [kind |-> "ndarray", point |-> point, converged |-> converged]

\* the `[]` stored for a point whose computation raised
EmptyList == [kind |-> "list"]

DictGuess(R, eta_tt, eta_ts, Ma_crit) ==
    [kind |-> "dict", R |-> R, eta_tt |-> eta_tt, eta_ts |-> eta_ts, Ma_crit |-> Ma_crit]

\* N of the sweep over heuristic variants
N == 11

\* np.linspace(start, stop, N)[i], i = 0..N-1
linspace(start, stop, i) == start + (i * (stop - start)) \div (N - 1)

\* x0 = {key: values[i] for key, values in x0_arrays.items()}
x0_arrays(i) ==
    DictGuess(linspace(0, 950, i), linspace(700, 1000, i), linspace(600, 900, i),
              linspace(900, 900, i))

\* initialize_solver raises ValueError("Initial guess must be an array or dictionary.")
initialize_solver_raises(guess) == guess.kind \notin {"ndarray", "None", "dict"}

\* the heuristic parameters initialize_solver hands to generate_initial_guess
heuristic_parameters(guess) ==
    IF guess.kind = "None"
    THEN [R |-> 500, eta_tt |-> 900, eta_ts |-> 800, Ma_crit |-> 950]
    ELSE [R |-> guess.R, eta_tt |-> guess.eta_tt, eta_ts |-> guess.eta_ts,
          Ma_crit |-> guess.Ma_crit]

\* a solver that is always created with the hybrid method
initialize_solver_hybr(solver_method, guess) ==
    [method  |-> "hybr",
     start   |-> IF guess.kind = "ndarray"
                 THEN [from |-> "array", point |-> guess.point]
                 ELSE [from |-> "heuristic", parameters |-> heuristic_parameters(guess)],
     outcome |-> "unsolved"]

\* initialize_solver: the solver object, before solve() is called on it
initialize_solver(solver_method, guess) ==
    [method  |-> solver_method,
     start   |-> IF guess.kind = "ndarray"
                 THEN [from |-> "array", point |-> guess.point]
                 ELSE [from |-> "heuristic", parameters |-> heuristic_parameters(guess)],
     outcome |-> "unsolved"]

NoSolver == [method |-> "none", start |-> [from |-> "none"], outcome |-> "unsolved"]

\* solver.solve(): returns a solution with success True / False, or raises
SolveOutcomes == {"converged", "failed", "raised"}

\* solver.solution exists only when solve() returned
has_solution(s) == s.outcome \in {"converged", "failed"}

\* solver.solution.success
solution_success(s) == s.outcome = "converged"

(***************************************************************************)
(* compute_performance: rows of the per-point lists.                       *)
(***************************************************************************)
\* a row built from the data of point i
Row(i) == [point |-> i, empty |-> FALSE]

\* pd.DataFrame([{}])
EmptyRow == [point |-> 0, empty |-> TRUE]

\* solver_status of the try branch / of the except branch
SolverStatus(s) == [completed |-> TRUE, success |-> solution_success(s)]

FailedStatus == [completed |-> FALSE, success |-> FALSE]

(***************************************************************************)
(* The case data: one dict handed to every point.  Each of its parts is    *)
(* represented by the index of the point whose processing wrote it last.   *)
(***************************************************************************)
NoCaseData == [BC |-> 0, fixed_params |-> 0, results |-> 0]

\* cascades_data["BC"] = boundary_conditions
set_boundary_conditions(data, i) == [data EXCEPT !.BC = i]

\* CascadesNonlinearSystemProblem.__init__: the reference values and m_ref
\* are recomputed from cascades_data["BC"]
problem_init(data) == [data EXCEPT !.fixed_params = data.BC]

\* a solve that stores results in the case data only when it converges
results_written_when_converged(data, outcome) ==
    IF outcome = "converged" THEN {[data EXCEPT !.results = data.BC]} ELSE {data}

\* solver.solve(): every residual evaluation that completes stores its
\* results in the case data; a solve that returns has completed at least one,
\* a solve that raises may have completed none
evaluated_results(data, outcome) ==
    IF outcome = "raised"
    THEN {data, [data EXCEPT !.results = data.BC]}
    ELSE {[data EXCEPT !.results = data.BC]}

\* where the loop over the operating points goes after point i of n
next_point(i, n) == IF i < n THEN "guess" ELSE "write"

\* an except clause that re-raises: the loop is left at the failed point
abort_on_exception(i, n) == "raised"

\* the except clause of the loop body: the loop goes on with the next point
after_exception(i, n) == next_point(i, n)

loop_vars == << index, initial_guess, guess_index, operation_point_data, overall_data,
                plane_data, cascade_data, stage_data, solver_data, solution_data >>

single_vars == << method, success, solver, variant, attempts, any_converged >>

input_vars == << operation_points, configured_method, output_dir_exists >>

(***************************************************************************)
(* Init: the state when compute_performance is entered with a list.        *)
(***************************************************************************)
DriverInit ==
    /\ operation_points \in SeqsUpTo(ValidPointChoices \cup InvalidPointChoices, MaxPoints)
    /\ configured_method \in {"lm", "hybr"}
    /\ output_dir_exists \in BOOLEAN
    /\ pc = "validate"
    /\ error = "none"
    /\ created = {}
    /\ index = 0
    /\ initial_guess = NoneGuess
    /\ guess_index = << >>
    /\ operation_point_data = << >>
    /\ overall_data = << >>
    /\ plane_data = << >>
    /\ cascade_data = << >>
    /\ stage_data = << >>
    /\ solver_data = << >>
    /\ solution_data = << >>
    /\ method = "none"
    /\ success = FALSE
    /\ solver = NoSolver
    /\ variant = 0
    /\ attempts = << >>
    /\ any_converged = FALSE
    /\ case_data = NoCaseData

(***************************************************************************)
(* compute_performance, lines 108-126: validation, directory, YAML export. *)
(***************************************************************************)
\* for operation_point in operation_points: validate_operation_point(...)
ValidatePoints ==
    /\ pc = "validate"
    /\ IF \A i \in 1..Len(operation_points) : validate_operation_point(operation_points[i])
       THEN pc' = "makedirs" /\ error' = error
       ELSE pc' = "raised" /\ error' = "ValueError"
    /\ UNCHANGED << call_vars, series_vars, choking_vars, case_data, input_vars, created, loop_vars, single_vars >>

\* if not os.path.exists(output_dir): os.makedirs(output_dir)
MakeOutputDir ==
    /\ pc = "makedirs"
    /\ created' = IF output_dir_exists THEN created ELSE created \cup {"output_dir"}
    /\ pc' = "export"
    /\ UNCHANGED << call_vars, series_vars, choking_vars, case_data, input_vars, error, loop_vars, single_vars >>

\* the YAML export of the settings, then the (empty) per-point lists
ExportSettings ==
    /\ pc = "export"
    /\ created' = created \cup {"yaml"}
    /\ pc' = "guess"
    /\ index' = 1
    /\ UNCHANGED << call_vars, series_vars, choking_vars, case_data, input_vars, error, initial_guess, guess_index, operation_point_data,
                    overall_data, plane_data, cascade_data, stage_data, solver_data,
                    solution_data, single_vars >>

(***************************************************************************)
(* compute_performance, lines 144-162: the initial guess of point `index`, *)
(* then the entry of compute_single_operation_point (lines 353-357).       *)
(***************************************************************************)
DefineInitialGuess ==
    /\ pc = "guess"
    /\ LET closest_index ==
               IF index = 1 THEN 0
               ELSE find_closest_operation_point(operation_points[index],
                                                 SubSeq(operation_points, 1, index - 1))
       IN  /\ guess_index' = Append(guess_index, closest_index)
           /\ initial_guess' = IF index = 1 THEN NoneGuess
                               ELSE SubSeq(solution_data, 1, index - 1)[closest_index]
    /\ method' = configured_method
    /\ success' = FALSE
    /\ solver' = NoSolver
    /\ variant' = 0
    /\ attempts' = << >>
    /\ any_converged' = FALSE
    /\ case_data' = set_boundary_conditions(case_data, index)
    /\ pc' = "stage1"
    /\ UNCHANGED << call_vars, series_vars, choking_vars, input_vars, error, created, index, operation_point_data, overall_data,
                    plane_data, cascade_data, stage_data, solver_data, solution_data >>

(***************************************************************************)
(* compute_single_operation_point, lines 356-426.                          *)
(***************************************************************************)
\* one solver attempt: initialize_solver(...), then solver.solve() in try/except.
\* A ValueError of initialize_solver is raised outside the try and leaves the
\* function: it reaches the except clause of compute_performance.
Attempt(stage, solver_method, guess, next_pc) ==
    IF initialize_solver_raises(guess)
    THEN /\ pc' = "except"
         /\ case_data' = problem_init(case_data)
         /\ UNCHANGED << solver, success, attempts, any_converged >>
    ELSE \E outcome \in SolveOutcomes :
            /\ case_data' \in evaluated_results(problem_init(case_data), outcome)
            /\ solver' = [initialize_solver(solver_method, guess) EXCEPT !.outcome = outcome]
            /\ success' = (outcome = "converged")
            /\ attempts' = Append(attempts, [stage |-> stage, method |-> solver_method,
                                             guess |-> guess])
            /\ any_converged' = (any_converged \/ outcome = "converged")
            /\ pc' = next_pc

\* `if method != "lm" and not success`
lm_retry_needed(current_method, succeeded) == current_method # "lm" /\ ~succeeded

\* a restart from the heuristic guess that does not look at `success`
heuristic_restart_always(guess, succeeded) == guess.kind = "ndarray"

\* `if isinstance(initial_guess, np.ndarray) and not success`
heuristic_restart_needed(guess, succeeded) == guess.kind = "ndarray" /\ ~succeeded

\* `if not success` guarding the sweep over heuristic variants
sweep_needed(succeeded) == ~succeeded

\* `for i in range(N)`: the sweep goes on while i < N
sweep_continues(i, succeeded) == i < N

\* lines 356-367: the configured method with the given guess
SolveConfigured ==
    /\ pc = "stage1"
    /\ Attempt(1, method, initial_guess, "stage2")
    /\ UNCHANGED << call_vars, series_vars, choking_vars, input_vars, error, created, loop_vars, method, variant >>

\* lines 369-381: Levenberg-Marquardt with the same guess
SolveLM ==
    /\ pc = "stage2"
    /\ lm_retry_needed(method, success)
    /\ method' = "lm"
    /\ Attempt(2, "lm", initial_guess, "stage3")
    /\ UNCHANGED << call_vars, series_vars, choking_vars, input_vars, error, created, loop_vars, variant >>

SkipLM ==
    /\ pc = "stage2"
    /\ ~lm_retry_needed(method, success)
    /\ pc' = "stage3"
    /\ UNCHANGED << call_vars, series_vars, choking_vars, case_data, input_vars, error, created, loop_vars, single_vars >>

\* lines 385-395: Levenberg-Marquardt with the default heuristic guess
SolveHeuristic ==
    /\ pc = "stage3"
    /\ heuristic_restart_needed(initial_guess, success)
    /\ method' = "lm"
    /\ Attempt(3, "lm", NoneGuess, "stage4")
    /\ UNCHANGED << call_vars, series_vars, choking_vars, input_vars, error, created, loop_vars, variant >>

SkipHeuristic ==
    /\ pc = "stage3"
    /\ ~heuristic_restart_needed(initial_guess, success)
    /\ pc' = "stage4"
    /\ UNCHANGED << call_vars, series_vars, choking_vars, case_data, input_vars, error, created, loop_vars, single_vars >>

\* lines 397-405: the sweep is entered when no attempt so far succeeded
EnterSweep ==
    /\ pc = "stage4"
    /\ sweep_needed(success)
    /\ variant' = 0
    /\ pc' = "sweep"
    /\ UNCHANGED << call_vars, series_vars, choking_vars, case_data, input_vars, error, created, loop_vars, method, success, solver,
                    attempts, any_converged >>

SkipSweep ==
    /\ pc = "stage4"
    /\ ~sweep_needed(success)
    /\ pc' = "return"
    /\ UNCHANGED << call_vars, series_vars, choking_vars, case_data, input_vars, error, created, loop_vars, single_vars >>

\* lines 407-419: one pass of the loop over the N heuristic variants
SolveVariant ==
    /\ pc = "sweep"
    /\ variant < N
    /\ sweep_continues(variant, success)
    /\ Attempt(4, method, x0_arrays(variant), "sweep")
    /\ variant' = variant + 1
    /\ UNCHANGED << call_vars, series_vars, choking_vars, input_vars, error, created, loop_vars, method >>

\* lines 421-423: the loop is left
EndSweep ==
    /\ pc = "sweep"
    /\ ~(variant < N /\ sweep_continues(variant, success))
    /\ pc' = "return"
    /\ UNCHANGED << call_vars, series_vars, choking_vars, case_data, input_vars, error, created, loop_vars, single_vars >>

\* line 426: `return solver`: the solver object last created is handed back
ReturnSolver ==
    /\ pc = "return"
    /\ pc' = "record"
    /\ UNCHANGED << call_vars, series_vars, choking_vars, case_data, input_vars, error, created, loop_vars, single_vars >>

(***************************************************************************)
(* compute_performance, lines 164-200: recording the point.                *)
(***************************************************************************)
\* lines 164-183.  Reading solver.solution of a solver whose solve() raised
\* raises in turn, and the except clause takes over.
RecordSolution ==
    /\ pc = "record"
    /\ IF has_solution(solver)
       THEN /\ operation_point_data' = Append(operation_point_data, Row(index))
            /\ overall_data' = Append(overall_data, Row(case_data.results))
            /\ plane_data' = Append(plane_data, Row(case_data.results))
            /\ cascade_data' = Append(cascade_data, Row(case_data.results))
            /\ stage_data' = Append(stage_data, Row(case_data.results))
            /\ solver_data' = Append(solver_data, SolverStatus(solver))
            /\ solution_data' = Append(solution_data,
                                       ArrayGuess(index, solution_success(solver)))
            /\ pc' = next_point(index, Len(operation_points))
            /\ index' = IF index < Len(operation_points) THEN index + 1 ELSE index
       ELSE /\ pc' = "except"
            /\ UNCHANGED << index, operation_point_data, overall_data, plane_data,
                            cascade_data, stage_data, solver_data, solution_data >>
    /\ UNCHANGED << call_vars, series_vars, choking_vars, case_data, input_vars, error, created, initial_guess, guess_index, single_vars >>

\* lines 164-183 when one of the calls that build the entries raises after j
\* of the seven appends have been made (flatten_dataframe and
\* cs.scale_to_real_values are among these calls): the except clause takes
\* over with the first j lists already extended
RecordInterrupted ==
    /\ pc = "record"
    /\ has_solution(solver)
    /\ \E j \in 1..6 :
          /\ operation_point_data' = Append(operation_point_data, Row(index))
          /\ overall_data' = IF j >= 2 THEN Append(overall_data, Row(case_data.results))
                             ELSE overall_data
          /\ plane_data' = IF j >= 3 THEN Append(plane_data, Row(case_data.results))
                           ELSE plane_data
          /\ cascade_data' = IF j >= 4 THEN Append(cascade_data, Row(case_data.results))
                             ELSE cascade_data
          /\ stage_data' = IF j >= 5 THEN Append(stage_data, Row(case_data.results))
                           ELSE stage_data
          /\ solver_data' = IF j >= 6 THEN Append(solver_data, SolverStatus(solver))
                            ELSE solver_data
    /\ pc' = "except"
    /\ UNCHANGED << call_vars, series_vars, choking_vars, case_data, input_vars, error, created,
                    index, solution_data, initial_guess, guess_index, single_vars >>

\* lines 185-200: the except clause
RecordException ==
    /\ pc = "except"
    /\ operation_point_data' = Append(operation_point_data, Row(index))
    /\ overall_data' = Append(overall_data, EmptyRow)
    /\ plane_data' = Append(plane_data, EmptyRow)
    /\ cascade_data' = Append(cascade_data, EmptyRow)
    /\ stage_data' = Append(stage_data, EmptyRow)
    /\ solver_data' = Append(solver_data, FailedStatus)
    /\ solution_data' = Append(solution_data, EmptyList)
    /\ pc' = after_exception(index, Len(operation_points))
    /\ index' = IF index < Len(operation_points) THEN index + 1 ELSE index
    /\ UNCHANGED << call_vars, series_vars, choking_vars, case_data, input_vars, error, created, initial_guess, guess_index, single_vars >>

\* lines 202-222: the workbook is written
WriteResults ==
    /\ pc = "write"
    /\ created' = created \cup {"xlsx"}
    /\ pc' = "done"
    /\ UNCHANGED << call_vars, series_vars, choking_vars, case_data, input_vars, error, loop_vars, single_vars >>

DriverNext ==
    \/ ValidatePoints
    \/ MakeOutputDir
    \/ ExportSettings
    \/ DefineInitialGuess
    \/ SolveConfigured
    \/ SolveLM
    \/ SkipLM
    \/ SolveHeuristic
    \/ SkipHeuristic
    \/ EnterSweep
    \/ SkipSweep
    \/ SolveVariant
    \/ EndSweep
    \/ ReturnSolver
    \/ RecordSolution
    \/ RecordException
    \/ WriteResults


(***************************************************************************)
(* Geometry validation (meanline/geometry.py).                             *)
(***************************************************************************)
MaxCascades == 4

valid_types == {"stator", "rotor"}

\* validate_axial_turbine_geometry, lines 71-81: TRUE when no ValueError is raised
validate_axial_turbine_geometry(geom) ==
    { i \in 1..Len(geom.cascade_type) : geom.cascade_type[i] \notin valid_types } = {}

\* number_of_cascades = len(geom["cascade_type"])
number_of_cascades(geom) == Len(geom.cascade_type)

\* geometry_cascade = {key: values[i] for key, values in geometry.items() ...}
geometry_cascade(geom, c) == [cascade_type |-> geom.cascade_type[c]]

\* get_tip_clearance_loss: the empirical parameter B, in thousandths
tip_clearance_B(cascade_type) ==
    IF cascade_type = "stator" THEN 0
    ELSE IF cascade_type = "rotor" THEN 370
    ELSE -1                                        \* B is left unbound

(***************************************************************************)
(* calculate_full_geometry (meanline/geometry.py).  A geometry is a Python *)
(* dict: a function from its keys.  Radii are in units of 1/6 mm, ratios   *)
(* in thousandths.  radius_hub and radius_tip hold two values per cascade, *)
(* inlet then outlet.  Of the derived quantities the model keeps the       *)
(* counts, the radii of the stations and the hub-to-tip ratios.            *)
(***************************************************************************)
\* the geometry of the configuration for the given rows: a hub of constant
\* radius and a tip radius that grows by `flare` from station to station
InputGeometry(types, flare) ==
    [cascade_type |-> types,
     radius_hub   |-> [i \in 1..(2 * Len(types)) |-> 600],
     radius_tip   |-> [i \in 1..(2 * Len(types)) |-> 1200 + flare * i]]

\* calculate_throat_radius: (1 / 6) * radius_in + (5 / 6) * radius_out
calculate_throat_radius(radius_in, radius_out) ==
    [i \in 1..Len(radius_in) |-> (radius_in[i] + 5 * radius_out[i]) \div 6]

\* radius[::2]
even_indices(radius) == [i \in 1..(Len(radius) \div 2) |-> radius[2 * i - 1]]

\* radius[1::2]
odd_indices(radius) == [i \in 1..(Len(radius) \div 2) |-> radius[2 * i]]

\* elementwise radius_hub / radius_tip
radius_ratio(hub, tip) == [i \in 1..Len(hub) |-> (1000 * hub[i]) \div tip[i]]

\* hub_tip_ratio_in = radius_hub_in / radius_tip_out
hub_tip_ratio_in(radius_hub_in, radius_tip_in, radius_tip_out) ==
    radius_ratio(radius_hub_in, radius_tip_out)

\* a count in which a machine with an odd number of rows has one stage more
number_of_stages_rounded_up(cascades) == (cascades + 1) \div 2

\* lines 160-167: the number of stages
number_of_stages(cascades) ==
    IF cascades > 1
    THEN IF cascades % 2 = 0 THEN cascades \div 2 ELSE (cascades - 1) \div 2
    ELSE 0

new_parameters(geom) ==
    LET radius_hub_in == even_indices(geom.radius_hub)
        radius_hub_out == odd_indices(geom.radius_hub)
        radius_hub_throat == calculate_throat_radius(radius_hub_in, radius_hub_out)
        radius_tip_in == even_indices(geom.radius_tip)
        radius_tip_out == odd_indices(geom.radius_tip)
        radius_tip_throat == calculate_throat_radius(radius_tip_in, radius_tip_out)
    IN  [number_of_stages     |-> number_of_stages(Len(geom.cascade_type)),
         number_of_cascades   |-> Len(geom.cascade_type),
         radius_hub_in        |-> radius_hub_in,
         radius_hub_out       |-> radius_hub_out,
         radius_hub_throat    |-> radius_hub_throat,
         radius_tip_in        |-> radius_tip_in,
         radius_tip_out       |-> radius_tip_out,
         radius_tip_throat    |-> radius_tip_throat,
         hub_tip_ratio        |-> radius_ratio(geom.radius_hub, geom.radius_tip),
         hub_tip_ratio_in     |-> hub_tip_ratio_in(radius_hub_in, radius_tip_in,
                                                   radius_tip_out),
         hub_tip_ratio_out    |-> radius_ratio(radius_hub_out, radius_tip_out),
         hub_tip_ratio_throat |-> radius_ratio(radius_hub_throat, radius_tip_throat)]

\* {**first, **second}
dict_merge(first, second) ==
    [key \in DOMAIN first \cup DOMAIN second |->
        IF key \in DOMAIN second THEN second[key] ELSE first[key]]

\* a calculation that stores the derived quantities in the dict it is given
updated_in_place(geometry_argument) ==
    dict_merge(geometry_argument, new_parameters(geometry_argument))

\* the dict passed to calculate_full_geometry, after the call: the derived
\* quantities are computed from the copy `geom`, which is only read, and are
\* returned in a new dict
argument_after_call(geometry_argument) == geometry_argument

\* return {**geometry, **new_parameters}
calculate_full_geometry(geometry_argument) ==
    dict_merge(geometry_argument, new_parameters(geometry_argument))

(***************************************************************************)
(* Series assembler (meanline/cascade_series.py).                          *)
(* A key "name" + "_" + str(c) is carried as the pair (name, c); a key     *)
(* without suffix has c = 0.                                               *)
(***************************************************************************)
Key(name, c) == [name |-> name, cascade |-> c]

Contains(keys, k) == \E j \in 1..Len(keys) : keys[j] = k

\* dict.update / dict literal on the key order of a dict: a key already
\* present keeps its place (its value is overwritten), a new key goes last
RECURSIVE dict_update(_, _)
dict_update(keys, new_keys) ==
    IF new_keys = << >> THEN keys
    ELSE dict_update(IF Contains(keys, Head(new_keys)) THEN keys
                     ELSE Append(keys, Head(new_keys)),
                     Tail(new_keys))

\* util.add_string_to_keys(d, suffix)
add_string_to_keys(names, c) == [j \in 1..Len(names) |-> Key(names[j], c)]

\* a suffix that does not follow the loop index
cascade_suffix_first(c) == 1

\* the number in `cascade = "_" + str(i + 1)` and f"_{i+1}", for the c-th cascade
cascade_suffix(c) == (c - 1) + 1

\* angular_speed_cascade = angular_speed * (i % 2)
angular_speed_cascade(omega, c) == omega * ((c - 1) % 2)

\* the keys of `variables` read for one cascade, lines 189-196
cascade_unknowns ==
    << "w_throat", "w_out", "s_throat", "s_out", "beta_out", "v*_in", "w*_out", "s*_out" >>

\* residual_keys of evaluate_cascade_critical (cascade_series.py, line 919)
critical_residual_keys == << "L*", "m*", "Y*" >>

\* the options of choking_functions in evaluate_cascade
choking_functions == {"deviation", "mach_critical", "mach_unity"}

\* the four residuals of the throat and exit planes, lines 424-430
flow_residual_names ==
    << "loss_error_throat", "loss_error_exit", "mass_error_throat", "mass_error_exit" >>

\* the keys of `variables` handed to evaluate_cascade_critical, lines 194-196
critical_unknowns == << "v*_in", "w*_out", "s*_out" >>

\* a residuals dict that leaves the choking equation out
cascade_residual_names_without_choking(condition) ==
    dict_update(<< >>, flow_residual_names \o critical_residual_keys)

\* the residuals dict built by evaluate_cascade, lines 426-433
cascade_residual_names(condition) ==
    dict_update(<< >>, flow_residual_names \o critical_residual_keys \o << condition >>)

SeqToSet(q) == { q[j] : j \in 1..Len(q) }

\* fluid.get_props(...): returns the state, or fails when the inputs are
\* outside the validity range of the fluid
get_props_outcomes == {"state", "PropertyOutOfRange"}

SeriesInputs ==
    /\ geometry \in {InputGeometry(types, flare) :
                        types \in SeqsUpTo(valid_types \cup {"nozzle"}, MaxCascades),
                        flare \in {0, 60}}
    /\ choking_condition \in choking_functions \cup {"critical_mach"}
    /\ angular_speed \in {0, 2}

SeriesStart ==
    /\ series_error = "none"
    /\ cascade = 0
    /\ variables_read = {}
    /\ residuals = << >>
    /\ results_plane = << >>
    /\ results_cascade = << >>
    /\ interspace_calls = 0
    /\ oracle_failed = FALSE

\* preliminary check of the geometry, before any evaluation
ValidateGeometry ==
    /\ series_pc = "validate"
    /\ IF validate_axial_turbine_geometry(geometry)
       THEN series_pc' = "geometry" /\ series_error' = series_error
       ELSE series_pc' = "raised" /\ series_error' = "ValueError"
    /\ UNCHANGED << call_vars, driver_vars, choking_vars, geometry, choking_condition, angular_speed,
                    cascade, variables_read, residuals, results_plane, results_cascade,
                    interspace_calls, oracle_failed >>

\* calculate_full_geometry: the full geometry is what the evaluation of the
\* series is given
CalculateFullGeometry ==
    /\ series_pc = "geometry"
    /\ call' = [function |-> "calculate_full_geometry", geometry |-> geometry]
    /\ result' = [kind |-> "value", geom |-> calculate_full_geometry(geometry)]
    /\ geometry' = argument_after_call(geometry)
    /\ series_pc' = "begin"
    /\ UNCHANGED << driver_vars, choking_vars, choking_condition, angular_speed,
                    series_error, cascade, variables_read, residuals, results_plane,
                    results_cascade, interspace_calls, oracle_failed >>

\* compute_stage_performance, lines 1519-1526: the positions in
\* results["plane"], counted from 0, of the enthalpies h[i*6], h[i*6 + 2] and
\* h[i*6 + 5] that give the degree of reaction of stage i
stage_plane_rows(i) == << i * 6, i * 6 + 2, i * 6 + 5 >>

\* evaluate_cascade_series, lines 144-174
BeginSeries ==
    /\ series_pc = "begin"
    /\ residuals' = << >>
    /\ results_plane' = << >>
    /\ results_cascade' = << >>
    /\ variables_read' = {Key("v_in", 0)}
    /\ cascade' = 1
    /\ series_pc' = "cascade"
    /\ UNCHANGED << call_vars, driver_vars, choking_vars, geometry, choking_condition, angular_speed,
                    series_error, interspace_calls, oracle_failed >>

\* evaluate_cascade_series, lines 176-231: one pass of the loop, up to the
\* update of the residuals; evaluate_cascade (lines 319-457) is part of it.
\* The outcome of the property calls and the branch of the choking equation
\* depend on the unknowns x.
EvaluateCascade ==
    /\ series_pc = "cascade"
    /\ variables_read' = variables_read \cup
                         SeqToSet(add_string_to_keys(cascade_unknowns, cascade_suffix(cascade)))
    /\ \E props \in get_props_outcomes, choked \in BOOLEAN :
          IF props # "state"
          THEN \* fluid.get_props raises inside evaluate_cascade_inlet / _exit
               /\ oracle_failed' = TRUE
               /\ series_pc' = "raised"
               /\ series_error' = props
               /\ UNCHANGED << residuals, results_plane, results_cascade >>
          ELSE IF choking_condition \notin choking_functions
          THEN /\ series_pc' = "raised"
               /\ series_error' = "ValueError"
               /\ UNCHANGED << residuals, results_plane, results_cascade, oracle_failed >>
          ELSE /\ results_plane' = results_plane \o
                        << [cascade |-> cascade, station |-> "inlet"],
                           [cascade |-> cascade, station |-> "throat"],
                           [cascade |-> cascade, station |-> "exit"] >>
               /\ results_cascade' = Append(results_cascade,
                        [cascade            |-> cascade,
                         cascade_type       |-> geometry_cascade(geometry, cascade).cascade_type,
                         B                  |-> tip_clearance_B(
                                                  geometry_cascade(geometry, cascade).cascade_type),
                         angular_speed      |-> angular_speed_cascade(angular_speed, cascade),
                         density_correction |-> IF choking_condition = "deviation" /\ choked
                                                THEN "value" ELSE "nan"])
               /\ residuals' = dict_update(residuals,
                        add_string_to_keys(cascade_residual_names(choking_condition),
                                           cascade_suffix(cascade)))
               /\ series_pc' = IF cascade # number_of_cascades(geometry)
                               THEN "interspace" ELSE "exit_pressure"
               /\ UNCHANGED << series_error, oracle_failed >>
    /\ UNCHANGED << call_vars, driver_vars, choking_vars, geometry, choking_condition, angular_speed,
                    cascade, interspace_calls >>

\* lines 233-250: evaluate_cascade_interspace, for every cascade but the last
EvaluateInterspace ==
    /\ series_pc = "interspace"
    /\ interspace_calls' = interspace_calls + 1
    /\ \E props \in get_props_outcomes :
          IF props = "state"
          THEN /\ cascade' = cascade + 1
               /\ series_pc' = "cascade"
               /\ UNCHANGED << series_error, oracle_failed >>
          ELSE /\ oracle_failed' = TRUE
               /\ series_pc' = "raised"
               /\ series_error' = props
               /\ UNCHANGED cascade
    /\ UNCHANGED << call_vars, driver_vars, choking_vars, geometry, choking_condition, angular_speed,
                    variables_read, residuals, results_plane, results_cascade >>

\* lines 252-281: the back-pressure residual, then the results are returned
AddExitPressureResidual ==
    /\ series_pc = "exit_pressure"
    /\ residuals' = dict_update(residuals, << Key("p_out", 0) >>)
    /\ series_pc' = "done"
    /\ UNCHANGED << call_vars, driver_vars, choking_vars, geometry, choking_condition, angular_speed,
                    series_error, cascade, variables_read, results_plane, results_cascade,
                    interspace_calls, oracle_failed >>

(***************************************************************************)
(* Choking sub-solver (axial_turbine/choking_model.py).                    *)
(***************************************************************************)
CHOKING_MODELS == << "evaluate_cascade_critical", "evaluate_cascade_throat",
                     "evaluate_cascade_isentropic_throat" >>

\* the keys of choking_input each mode reads
choking_input_keys(model) ==
    IF model = CHOKING_MODELS[1] THEN {"v*_in", "w*_throat", "s*_throat"}
    ELSE IF model = CHOKING_MODELS[2] THEN {"w*_throat", "s*_throat", "beta*_throat"}
    ELSE {"w*_throat"}

\* residual_keys of each mode
choking_residual_keys(model) ==
    IF model = CHOKING_MODELS[1] THEN << "m*", "Y*", "L*", "choking" >>
    ELSE IF model = CHOKING_MODELS[2] THEN << "m*", "Y*", "beta*", "choking" >>
    ELSE << "m*", "choking" >>

ChokingInputs == choking_model \in SeqToSet(CHOKING_MODELS) \cup {"evaluate_cascade_choked"}

ChokingStart ==
    /\ choking_input_read = {}
    /\ residuals_critical = << >>

\* evaluate_choking, lines 13-41: dispatch on model_options["choking_model"];
\* residuals_critical = dict(zip(residual_keys, residual_values))
EvaluateChoking ==
    /\ choking_pc = "call"
    /\ IF Contains(CHOKING_MODELS, choking_model)
       THEN /\ choking_input_read' = choking_input_keys(choking_model)
            /\ residuals_critical' = dict_update(<< >>, choking_residual_keys(choking_model))
            /\ choking_pc' = "done"
       ELSE /\ choking_pc' = "raised"
            /\ UNCHANGED << choking_input_read, residuals_critical >>
    /\ UNCHANGED << call_vars, driver_vars, series_vars, choking_model >>

(***************************************************************************)
(* Functions without state.  Mach numbers, loss coefficients, cosines and  *)
(* area ratios are in thousandths, angles in whole degrees, pressures in   *)
(* kPa, temperatures in K.  Quotients are rounded towards minus infinity.  *)
(***************************************************************************)
\* no function call is under way
NoCall == [function |-> "none"]

NoResult == [kind |-> "none"]

\* np.sign
sign(a) == IF a > 0 THEN 1 ELSE IF a < 0 THEN -1 ELSE 0

\* cosine of an angle of 0..90 degrees, from its power series in units of 1e-4
cos_first_quadrant(a) ==
    LET x  == (a * 1745) \div 10
        x2 == (x * x) \div 10000
        x4 == (x2 * x2) \div 10000
        x6 == (x4 * x2) \div 10000
        x8 == ((x6 \div 10) * x2) \div 1000
    IN  (10000 - x2 \div 2 + x4 \div 24 - x6 \div 720 + x8 \div 40320 + 5) \div 10

\* math.cosd, for angles of -180..180 degrees
cosd(a) ==
    LET b == Abs(a)
    IN  IF b <= 90 THEN cos_first_quadrant(b) ELSE -cos_first_quadrant(180 - b)

\* math.arccosd, to the degree: the smallest angle whose cosine is not above x
arccosd(x) ==
    CHOOSE a \in 0..180 : cosd(a) <= x /\ (a = 0 \/ cosd(a - 1) > x)

\* math.arcsind
arcsind(x) == 90 - arccosd(x)

(***************************************************************************)
(* Deviation models (axial_turbine/deviation_model.py).  `empty` is the    *)
(* content np.empty_like leaves in `delta` before any mask is applied.     *)
(***************************************************************************)
DEVIATION_MODELS == << "aungier", "ainley_mathieson", "zero_deviation" >>

\* geometry["A_throat"] / geometry["A_out"]
area_ratio(geom) == (geom.A_throat * 1000) \div geom.A_out

\* delta_0 of get_exit_flow_angle_aungier, line 112
delta_0_aungier(geom) ==
    LET gauging_angle == arccosd(area_ratio(geom))
        beta_g == 90 - Abs(gauging_angle)
        r == area_ratio(geom)
    IN  arcsind((r * (1000 + ((1000 - r) * beta_g * beta_g) \div 8100)) \div 1000) - beta_g

\* delta_0 of get_exit_flow_angle_ainley_mathieson, line 185
delta_0_ainley_mathieson(geom) ==
    LET gauging_angle == arccosd(area_ratio(geom))
    IN  Abs(gauging_angle) - (35 + ((80 - 35) * (Abs(gauging_angle) - 40)) \div (79 - 40))

\* 1 - 10 X^3 + 15 X^4 - 6 X^5 with X = (2 Ma_exit - 1) / (2 Ma_crit - 1)
aungier_polynomial(Ma_exit, Ma_crit) ==
    LET X  == ((2 * Ma_exit - 1000) * 1000) \div (2 * Ma_crit - 1000)
        X3 == (X * X * X) \div 1000000
        X4 == (X3 * X) \div 1000
        X5 == (X4 * X) \div 1000
    IN  1000 - 10 * X3 + 15 * X4 - 6 * X5

\* the mask of the last assignment to delta in get_exit_flow_angle_aungier
supersonic_mask_aungier(Ma_exit, Ma_crit) == Ma_exit >= Ma_crit

\* the mask of the last assignment to delta in get_exit_flow_angle_ainley_mathieson
supersonic_mask_ainley_mathieson(Ma_exit, Ma_crit) == Ma_exit >= 1000

get_exit_flow_angle_aungier(Ma_exit, Ma_crit, geom, empty) ==
    LET gauging_angle == arccosd(area_ratio(geom))
        delta_0 == delta_0_aungier(geom)
        low     == IF Ma_exit < 500 THEN delta_0 ELSE empty
        medium  == IF 500 <= Ma_exit /\ Ma_exit < Ma_crit
                   THEN (delta_0 * aungier_polynomial(Ma_exit, Ma_crit)) \div 1000
                   ELSE low
        delta   == IF supersonic_mask_aungier(Ma_exit, Ma_crit) THEN 0 ELSE medium
    IN  gauging_angle - delta

get_exit_flow_angle_ainley_mathieson(Ma_exit, Ma_crit, geom, empty) ==
    LET gauging_angle == arccosd(area_ratio(geom))
        delta_0 == delta_0_ainley_mathieson(geom)
        low     == IF Ma_exit < 500 THEN delta_0 ELSE empty
        medium  == IF 500 <= Ma_exit /\ Ma_exit < Ma_crit
                   THEN (delta_0 * (1000 + ((500 - Ma_exit) * 1000) \div (Ma_crit - 500)))
                            \div 1000
                   ELSE low
        delta   == IF supersonic_mask_ainley_mathieson(Ma_exit, Ma_crit) THEN 0 ELSE medium
    IN  Abs(gauging_angle) - delta

get_exit_flow_angle_zero_deviation(Ma_exit, Ma_crit, geom) == arccosd(area_ratio(geom))

\* get_subsonic_deviation, for a model of DEVIATION_MODELS
get_subsonic_deviation(Ma_exit, Ma_crit, geom, model, empty) ==
    IF model = DEVIATION_MODELS[1]
    THEN get_exit_flow_angle_aungier(Ma_exit, Ma_crit, geom, empty)
    ELSE IF model = DEVIATION_MODELS[2]
    THEN get_exit_flow_angle_ainley_mathieson(Ma_exit, Ma_crit, geom, empty)
    ELSE get_exit_flow_angle_zero_deviation(Ma_exit, Ma_crit, geom)

\* cascades whose gauging angle is 30 and 60 degrees
GeometryChoices == { [A_throat |-> 866, A_out |-> 1000], [A_throat |-> 500, A_out |-> 1000] }

\* what the memory handed out by np.empty_like may hold
EmptyChoices == {-4, 9}

MachChoices == {300, 500, 700, 900, 1000, 1200}

CriticalMachChoices == {600, 900, 1000, 1100}

DeviationCalls ==
    [function : {"get_subsonic_deviation"}, Ma_exit : MachChoices,
     Ma_crit : CriticalMachChoices, geometry : GeometryChoices,
     model : SeqToSet(DEVIATION_MODELS) \cup {"metal_angle"}]

\* one call of get_subsonic_deviation
CallGetSubsonicDeviation ==
    /\ call.function = "get_subsonic_deviation"
    /\ result = NoResult
    /\ IF Contains(DEVIATION_MODELS, call.model)
       THEN \E empty \in EmptyChoices :
               result' = [kind |-> "value",
                          value |-> get_subsonic_deviation(call.Ma_exit, call.Ma_crit,
                                                           call.geometry, call.model, empty)]
       ELSE result' = [kind |-> "ValueError"]
    /\ UNCHANGED << driver_vars, series_vars, choking_vars, call >>

(***************************************************************************)
(* Choking model B: evaluate_cascade_throat (axial_turbine/choking_model). *)
(***************************************************************************)
\* interpolate_critical_state: mach_crit, the second value returned, from the
\* polynomial in (p0_in, T0_in, Y) evaluated in millionths
interpolate_critical_state(p0_in, T0_in, Y) ==
    ( 997809
      - (8596 * p0_in) \div 1000
      + (21828 * T0_in) \div 1000
      - (338414 * Y) \div 1000
      - (489 * p0_in * p0_in) \div 10000
      - (599 * T0_in * T0_in) \div 10000
      + (9935 * Y * Y) \div 100000
      + (7712 * p0_in * T0_in) \div 100000
      - (4133 * p0_in * Y) \div 1000000
      + (4913 * T0_in * Y) \div 1000000 ) \div 1000

\* a test that sends an exit exactly at the critical Mach number to the choked branch
exit_below_critical(Ma_rel_exit, critical_mach) == Ma_rel_exit < critical_mach

\* `if exit_plane["Ma_rel"] <= critical_mach`
exit_not_above_critical(Ma_rel_exit, critical_mach) == Ma_rel_exit <= critical_mach

\* evaluate_cascade_throat, lines 79-105: the critical state and the last two
\* residuals.  throat_plane and Y_tot come from fm.evaluate_cascade_throat.
evaluate_cascade_throat(inlet_plane, throat_plane, exit_plane, Y_tot, geom, deviation_model, empty_throat, empty_exit) ==
    LET critical_mach == interpolate_critical_state(inlet_plane.p0_rel,
                                                    inlet_plane.T0_rel, Y_tot)
        beta_model_throat ==
            sign(throat_plane.beta)
              * get_subsonic_deviation(throat_plane.Ma_rel, critical_mach, geom,
                                       deviation_model, empty_throat)
        beta_residual == cosd(beta_model_throat) - cosd(throat_plane.beta)
        beta_model ==
            sign(exit_plane.beta)
              * get_subsonic_deviation(exit_plane.Ma_rel, critical_mach, geom,
                                       deviation_model, empty_exit)
        choking_residual ==
            IF exit_not_above_critical(exit_plane.Ma_rel, critical_mach)
            THEN cosd(beta_model) - cosd(exit_plane.beta)
            ELSE throat_plane.Ma_rel - critical_mach
    IN  [kind           |-> "value",
         residuals      |-> [beta |-> beta_residual, choking |-> choking_residual],
         critical_state |-> [Ma_rel |-> critical_mach]]

\* the exit Mach number is taken below, at and above the critical one
ThroatCalls ==
    { [function        |-> "evaluate_cascade_throat",
       inlet_plane     |-> [p0_rel |-> p0, T0_rel |-> 300],
       Y_tot           |-> 100,
       throat_plane    |-> [Ma_rel |-> Ma_throat, beta |-> 60],
       exit_plane      |-> [Ma_rel |-> interpolate_critical_state(p0, 300, 100) + offset,
                            beta |-> beta_exit],
       geometry        |-> geom,
       deviation_model |-> model] :
         p0 \in {100, 200}, Ma_throat \in {600, 1000}, offset \in {-500, 0, 150},
         beta_exit \in {-60, 45}, geom \in GeometryChoices,
         model \in {"aungier", "zero_deviation"} }

\* one call of evaluate_cascade_throat
CallEvaluateCascadeThroat ==
    /\ call.function = "evaluate_cascade_throat"
    /\ result = NoResult
    /\ \E empty_throat \in EmptyChoices, empty_exit \in EmptyChoices :
          result' = evaluate_cascade_throat(call.inlet_plane, call.throat_plane,
                                            call.exit_plane, call.Y_tot, call.geometry,
                                            call.deviation_model, empty_throat, empty_exit)
    /\ UNCHANGED << driver_vars, series_vars, choking_vars, call >>

(***************************************************************************)
(* Choking model C: evaluate_cascade_isentropic_throat.  Mass flows are in *)
(* kg/s, the scaled mass balance in thousandths.                           *)
(***************************************************************************)
Min2(a, b) == IF a <= b THEN a ELSE b

\* a limit that lets a supersonic exit through
exit_mach_uncapped(Ma_rel_exit) == Ma_rel_exit

\* min(exit_plane["Ma_rel"], 1)
exit_mach_capped(Ma_rel_exit) == Min2(Ma_rel_exit, 1000)

\* the input handed to fm.evaluate_cascade_throat, lines 492-495
isentropic_throat_input(choking_input, inlet_plane, exit_plane, geom, reference_values) ==
    [w        |-> choking_input.w_throat * reference_values.v0,
     s        |-> inlet_plane.s,
     beta     |-> sign(exit_plane.beta) * arccosd(area_ratio(geom)),
     rothalpy |-> inlet_plane.rothalpy]

\* evaluate_cascade_isentropic_throat; throat_plane is what
\* fm.evaluate_cascade_throat returns for cascade_throat_input
evaluate_cascade_isentropic_throat(choking_input, inlet_plane, exit_plane, geom, reference_values, throat_plane) ==
    LET choking_residual == throat_plane.Ma_rel - exit_mach_capped(exit_plane.Ma_rel)
    IN  [kind                 |-> "value",
         cascade_throat_input |-> isentropic_throat_input(choking_input, inlet_plane,
                                                          exit_plane, geom, reference_values),
         residual_values      |-> << ((inlet_plane.mass_flow - throat_plane.mass_flow) * 1000)
                                        \div reference_values.mass_flow_ref,
                                     choking_residual >>,
         critical_state       |-> [Ma_rel |-> 1000, mass_flow |-> 2700]]

IsentropicThroatCalls ==
    [function         : {"evaluate_cascade_isentropic_throat"},
     choking_input    : [w_throat : {1}],
     inlet_plane      : [s : {5, 7}, rothalpy : {3}, mass_flow : {20}],
     exit_plane       : [Ma_rel : {700, 1000, 1200}, beta : {-60, 45}],
     geometry         : GeometryChoices,
     reference_values : [v0 : {2}, mass_flow_ref : {20}],
     throat_plane     : [Ma_rel : {700, 1000, 1200}, mass_flow : {20, 25}]]

\* one call of evaluate_cascade_isentropic_throat
CallEvaluateCascadeIsentropicThroat ==
    /\ call.function = "evaluate_cascade_isentropic_throat"
    /\ result = NoResult
    /\ result' = evaluate_cascade_isentropic_throat(call.choking_input, call.inlet_plane,
                                                    call.exit_plane, call.geometry,
                                                    call.reference_values, call.throat_plane)
    /\ UNCHANGED << driver_vars, series_vars, choking_vars, call >>

(***************************************************************************)
(* Choking model A: the Lagrangian residual of evaluate_cascade_critical.  *)
(* J is the 3 x 3 Jacobian, J[r][c] standing for J[r - 1, c - 1] of the    *)
(* code; the residual is in thousandths.                                   *)
(***************************************************************************)
\* the gradients had the multipliers been taken from the equations of x1 and
\* x2 and the equation of x3 been the one evaluated
gradients_first_two(J) ==
    [a11 |-> J[2][1], a12 |-> J[3][1], a21 |-> J[2][2], a22 |-> J[3][2],
     b1 |-> -1 * J[1][1], b2 |-> -1 * J[1][2],
     df |-> J[1][3], dg1 |-> J[2][3], dg2 |-> J[3][3]]

\* a11, a12, a21, a22, b1, b2 = J[1,0], J[2,0], J[1,2], J[2,2], -J[0,0], -J[0,2]
\* and df, dg1, dg2 = J[0,1], J[1,1], J[2,1]
gradients(J) ==
    [a11 |-> J[2][1], a12 |-> J[3][1], a21 |-> J[2][3], a22 |-> J[3][3],
     b1 |-> -1 * J[1][1], b2 |-> -1 * J[1][3],
     df |-> J[1][2], dg1 |-> J[2][2], dg2 |-> J[3][2]]

\* determinant, l1_det, l2_det of choking_model.py, lines 256-258
determinant(J) == LET g == gradients(J) IN g.a11 * g.a22 - g.a12 * g.a21

l1_det(J) == LET g == gradients(J) IN g.a22 * g.b1 - g.a12 * g.b2

l2_det(J) == LET g == gradients(J) IN g.a11 * g.b2 - g.a21 * g.b1

\* a gradient in which df is not multiplied by the determinant
lagrangian_gradient_unscaled(J, mass_flow_ref) ==
    LET g == gradients(J)
    IN  ((g.df + l1_det(J) * g.dg1 + l2_det(J) * g.dg2) * 1000) \div mass_flow_ref

\* grad = (determinant*df + l1_det*dg1 + l2_det*dg2) / mass_flow_ref
lagrangian_gradient(J, mass_flow_ref) ==
    LET g == gradients(J)
    IN  ((determinant(J) * g.df + l1_det(J) * g.dg1 + l2_det(J) * g.dg2) * 1000)
           \div mass_flow_ref

\* the stationarity residual df + l1*dg1 + l2*dg2 with the multipliers of
\* Cramer's rule, l1 = l1_det / determinant and l2 = l2_det / determinant
\* (cascade_series.py, lines 908-914, without its eps): a fraction, which has
\* no value when the determinant is zero
stationarity_residual(J) ==
    LET g == gradients(J)
    IN  [defined     |-> determinant(J) # 0,
         numerator   |-> g.df * determinant(J) + l1_det(J) * g.dg1 + l2_det(J) * g.dg2,
         denominator |-> determinant(J)]

\* residual_keys of line 280: the two constraints, then grad, then the
\* choking residual
residual_keys == << "m*", "Y*", "L*", "choking" >>

JacobianEntries == {-1, 0, 1}

LagrangianCalls ==
    [function : {"lagrangian_gradient"},
     J : [1..3 -> [1..3 -> JacobianEntries]],
     mass_flow_ref : {2}]

\* the evaluation of grad in evaluate_cascade_critical, lines 246-263
CallLagrangianGradient ==
    /\ call.function = "lagrangian_gradient"
    /\ result = NoResult
    /\ result' = [kind |-> "value", grad |-> lagrangian_gradient(call.J, call.mass_flow_ref),
                  residual_keys |-> residual_keys]
    /\ UNCHANGED << driver_vars, series_vars, choking_vars, call >>

(***************************************************************************)
(* Blockage factor of the throat and exit planes.  Blockage factors are in *)
(* thousandths, chord and opening in millimetres; the Reynolds numbers are *)
(* fifth powers so that Re ** (1 / 5) is a whole number.                   *)
(***************************************************************************)
fifth_root(Re) == CHOOSE r \in 1..20 : r * r * r * r * r = Re

StringOption(value) == [kind |-> "str", value |-> value]

NumberOption(value) == [kind |-> "number", value |-> value]

NoneOption == [kind |-> "None"]

\* isinstance(throat_blockage, (float, int)) and 0 <= throat_blockage <= 1
numeric_blockage_accepted(throat_blockage) ==
    /\ throat_blockage.kind = "number"
    /\ 0 <= throat_blockage.value
    /\ throat_blockage.value <= 1000

compute_blockage_boundary_layer(throat_blockage, Re, chord, opening) ==
    IF throat_blockage = StringOption("flat_plate_turbulent")
    THEN \* displacement_thickness = 0.048 / Re ** (1 / 5) * 0.9 * chord
         \* blockage_factor = 2 * displacement_thickness / opening
         [kind |-> "value",
          blockage_factor |-> (864 * chord) \div (10 * fifth_root(Re) * opening)]
    ELSE IF numeric_blockage_accepted(throat_blockage)
    THEN [kind |-> "value", blockage_factor |-> throat_blockage.value]
    ELSE IF throat_blockage = NoneOption
    THEN [kind |-> "value", blockage_factor |-> 0]
    ELSE [kind |-> "ValueError"]

\* mass_flow = rho * w_m * area * (1 - blockage_factor), with rho * w_m * area
\* given as mass_flux_area
exit_mass_flow(blockage, Re, chord, opening, mass_flux_area) ==
    LET blockage_factor == compute_blockage_boundary_layer(blockage, Re, chord, opening)
    IN  IF blockage_factor.kind = "ValueError"
        THEN blockage_factor
        ELSE [kind |-> "value",
              blockage_factor |-> blockage_factor.blockage_factor,
              mass_flow |-> (mass_flux_area * (1000 - blockage_factor.blockage_factor))
                               \div 1000]

BlockageOptions ==
    {StringOption("flat_plate_turbulent"), StringOption("thick"), NoneOption}
        \cup {NumberOption(b) : b \in {-100, 0, 250, 1000, 1500}}

BlockageCalls ==
    [function : {"compute_blockage_boundary_layer"},
     blockage : BlockageOptions,
     Re : {1, 100000, 1048576},
     chord : {20, 200},
     opening : {1, 10},
     mass_flux_area : {2000}]

\* lines 671-673 of evaluate_cascade_exit
CallComputeBlockageBoundaryLayer ==
    /\ call.function = "compute_blockage_boundary_layer"
    /\ result = NoResult
    /\ result' = exit_mass_flow(call.blockage, call.Re, call.chord, call.opening,
                                call.mass_flux_area)
    /\ UNCHANGED << driver_vars, series_vars, choking_vars, call >>

(***************************************************************************)
(* check_axial_turbine_geometry (meanline/geometry.py): the report of the  *)
(* parameters against their recommended ranges.  Angles are in degrees,    *)
(* the tip clearance in units of 0.1 mm.                                   *)
(***************************************************************************)
\* lines 342-392, the angles and the tip clearance
recommended_ranges ==
    [stagger_angle  |-> [min |-> -10, max |-> 70],
     metal_angle_le |-> [min |-> -60, max |-> 25],
     metal_angle_te |-> [min |-> 40, max |-> 80],
     wedge_angle_le |-> [min |-> 10, max |-> 60],
     tip_clearance  |-> [min |-> 2, max |-> 1000]]

special_angles == {"metal_angle_le", "metal_angle_te", "stagger_angle"}

\* lines 446-461: lb and ub after the pass of the inner loop for row number
\* `row` (counted from 1); row 0 stands for `lb, ub = limits["min"],
\* limits["max"]` before the loop.  lb and ub are assigned once for a
\* parameter and each pass starts from what the pass before left.
RECURSIVE limits_after(_, _, _)
limits_after(parameter, cascade_types, row) ==
    LET limits == recommended_ranges[parameter]
    IN  IF row = 0
        THEN [lb |-> limits.min, ub |-> limits.max]
        ELSE LET before == limits_after(parameter, cascade_types, row - 1)
                 blade_type == cascade_types[row]
             IN  IF parameter \in special_angles /\ blade_type = "rotor"
                 THEN [lb |-> -before.ub, ub |-> -before.lb]
                 ELSE IF parameter = "tip_clearance"
                 THEN [lb |-> IF blade_type = "stator" THEN 0
                              ELSE IF blade_type = "rotor" THEN limits.min
                              ELSE before.lb,
                       ub |-> before.ub]
                 ELSE before

\* lines 442-473: one line of the report for each row, with the range that
\* was applied and the verdict in_range = lb <= value <= ub
check_axial_turbine_geometry(parameter, cascade_types, value_array) ==
    [row \in 1..Len(value_array) |->
        LET range == limits_after(parameter, cascade_types, row)
        IN  [parameter |-> parameter,
             index     |-> row - 1,
             bounds    |-> range,
             in_range  |-> range.lb <= value_array[row] /\ value_array[row] <= range.ub]]

GeometryCheckCalls ==
    [function : {"check_axial_turbine_geometry"},
     parameter : DOMAIN recommended_ranges,
     cascade_type : SeqsUpTo(valid_types, 3),
     value : {-50, 15, 50}]

CallCheckAxialTurbineGeometry ==
    /\ call.function = "check_axial_turbine_geometry"
    /\ result = NoResult
    /\ result' = [kind |-> "value",
                  report |-> check_axial_turbine_geometry(
                                 call.parameter, call.cascade_type,
                                 [i \in 1..Len(call.cascade_type) |-> call.value])]
    /\ UNCHANGED << driver_vars, series_vars, choking_vars, call >>

(***************************************************************************)
(* The space between two rows.  The flow leaves row i through its exit     *)
(* plane and enters row i + 1 through the inlet plane that                 *)
(* evaluate_cascade_interspace prepares.  The property calls are taken to  *)
(* be consistent: the density found at the inlet from (h, s) is the        *)
(* density rho_in from which s was found.                                  *)
(***************************************************************************)
\* lines 783-802: stagnation enthalpy, angular momentum and density are kept
evaluate_cascade_interspace(h0_exit, v_m_exit, v_t_exit, rho_exit, radius_exit, area_exit, radius_inlet, area_inlet) ==
    [h0_in  |-> h0_exit,
     v_t_in |-> (v_t_exit * radius_exit) \div radius_inlet,
     v_m_in |-> (v_m_exit * area_exit) \div area_inlet,
     rho_in |-> rho_exit]

\* evaluate_cascade_inlet, lines 500-527: w_m = v_m of the velocity triangle
\* and m = rho * w_m * area
inlet_mass_flow(rho, v_m, area) == rho * v_m * area

InterspaceCalls ==
    [function : {"evaluate_cascade_interspace"},
     blockage : {NoneOption, NumberOption(0), NumberOption(250),
                 StringOption("flat_plate_turbulent")},
     Re : {100000}, chord : {20}, opening : {10},
     h0_exit : {100}, rho_exit : {2}, v_m_exit : {30}, v_t_exit : {0, 40},
     radius_exit : {10}, radius_inlet : {10, 20},
     area_exit : {40}, area_inlet : {40, 50}]

\* evaluate_cascade_series, lines 233-250, between the exit plane of one call
\* of evaluate_cascade and the inlet plane of the next
CallEvaluateCascadeInterspace ==
    /\ call.function = "evaluate_cascade_interspace"
    /\ result = NoResult
    /\ LET exit_plane == exit_mass_flow(call.blockage, call.Re, call.chord, call.opening,
                                        call.rho_exit * call.v_m_exit * call.area_exit)
           inlet_input == evaluate_cascade_interspace(
                              call.h0_exit, call.v_m_exit, call.v_t_exit, call.rho_exit,
                              call.radius_exit, call.area_exit,
                              call.radius_inlet, call.area_inlet)
       IN  result' = [kind |-> "value",
                      exit_plane  |-> exit_plane,
                      inlet_input |-> inlet_input,
                      inlet_plane |-> [mass_flow |-> inlet_mass_flow(inlet_input.rho_in,
                                                         inlet_input.v_m_in, call.area_inlet)]]
    /\ UNCHANGED << driver_vars, series_vars, choking_vars, call >>

(***************************************************************************)
(* Loss model of Benner.  Loss coefficients and the penetration depth      *)
(* ratio Z_TE are in thousandths.  The correlations get_profile_loss,      *)
(* get_trailing_edge_loss, get_secondary_loss, get_tip_clearance_loss,     *)
(* get_incidence_loss and get_penetration_depth are represented by their   *)
(* values, which are the inputs of the model.                              *)
(***************************************************************************)
\* Y *= 1 - ZTE
penetration_corrected(Y, ZTE) == (Y * (1000 - ZTE)) \div 1000

\* a total that takes profile, trailing edge and incidence losses as they
\* were before the penetration-depth correction
loss_total_uncorrected(Y_p, Y_te, Y_inc, Y_s, Y_cl, ZTE) ==
    Y_p + Y_te + Y_inc + Y_s + Y_cl

\* "loss_total": Y_p + Y_te + Y_inc + Y_s + Y_cl, evaluated after lines 59-61
loss_total(Y_p, Y_te, Y_inc, Y_s, Y_cl, ZTE) ==
    penetration_corrected(Y_p, ZTE) + penetration_corrected(Y_te, ZTE)
        + penetration_corrected(Y_inc, ZTE) + Y_s + Y_cl

compute_losses(Y_p, Y_te, Y_s, Y_cl, Y_inc, ZTE) ==
    [loss_profile   |-> penetration_corrected(Y_p, ZTE),
     loss_incidence |-> penetration_corrected(Y_inc, ZTE),
     loss_trailing  |-> penetration_corrected(Y_te, ZTE),
     loss_secondary |-> Y_s,
     loss_clearance |-> Y_cl,
     loss_total     |-> loss_total(Y_p, Y_te, Y_inc, Y_s, Y_cl, ZTE)]

LossCalls ==
    [function : {"compute_losses"},
     Y_p : {0, 40}, Y_te : {0, 10}, Y_s : {0, 60}, Y_cl : {0, 30},
     Y_inc : {-5, 25}, ZTE : {0, 200}]

CallComputeLosses ==
    /\ call.function = "compute_losses"
    /\ result = NoResult
    /\ result' = [kind |-> "value",
                  losses |-> compute_losses(call.Y_p, call.Y_te, call.Y_s, call.Y_cl,
                                            call.Y_inc, call.ZTE)]
    /\ UNCHANGED << driver_vars, series_vars, choking_vars, call >>

(***************************************************************************)
(* Efficiency breakdown and overall performance.  Enthalpies are in kJ/kg  *)
(* and velocities in units whose half square is 1 kJ/kg.  The quotients of *)
(* the code are kept exact: a floating-point value is a fraction n / d in  *)
(* lowest terms with d > 0, and d = 0 stands for the non-finite result of  *)
(* a division by zero.                                                     *)
(***************************************************************************)
RECURSIVE GCD(_, _)
GCD(a, b) == IF b = 0 THEN Abs(a) ELSE GCD(Abs(b), Abs(a) % Abs(b))

NaN == [n |-> 0, d |-> 0]

Rat(n, d) ==
    IF d = 0 THEN NaN
    ELSE LET g == GCD(n, d)
             sg == IF d < 0 THEN -1 ELSE 1
         IN  [n |-> sg * (n \div g), d |-> sg * (d \div g)]

RatInt(i) == [n |-> i, d |-> 1]

RatAdd(a, b) ==
    IF a.d = 0 \/ b.d = 0 THEN NaN ELSE Rat(a.n * b.d + b.n * a.d, a.d * b.d)

RatSub(a, b) ==
    IF a.d = 0 \/ b.d = 0 THEN NaN ELSE Rat(a.n * b.d - b.n * a.d, a.d * b.d)

RatMul(a, b) ==
    IF a.d = 0 \/ b.d = 0 THEN NaN ELSE Rat(a.n * b.n, a.d * b.d)

RatDiv(a, b) ==
    IF a.d = 0 \/ b.d = 0 \/ b.n = 0 THEN NaN ELSE Rat(a.n * b.d, a.d * b.n)

\* a quotient of floating-point numbers: a division by zero gives inf or
\* nan, a value that is not finite
IsFinite(a) == a.d # 0

\* the loss dictionary of a cascade: the components and the total of
\* compute_losses
evaluate_loss_model(loss_model_input) ==
    compute_losses(loss_model_input.Y_p, loss_model_input.Y_te, loss_model_input.Y_s,
                   loss_model_input.Y_cl, loss_model_input.Y_inc, loss_model_input.ZTE)

\* h0 = h + 0.5 * v**2 of the exit plane
stagnation_enthalpy(h, v) == h + (v * v) \div 2

\* the part of results that the efficiency breakdown and the overall
\* performance read: plane["h0"][0], plane["h"], plane["h0"] and plane["v"] of
\* the last plane, the cascade table, reference_values["h_out_s"],
\* plane["mass_flow"] of the last plane and boundary_conditions["omega"]
series_results(inputs) ==
    [h_out_s |-> inputs.h_out_s,
     omega   |-> inputs.omega,
     mass_flow |-> inputs.mass_flow,
     h0_in   |-> inputs.h0_in,
     h_out   |-> inputs.h_out,
     v_out   |-> inputs.v_out,
     h0_out  |-> stagnation_enthalpy(inputs.h_out, inputs.v_out),
     cascade |-> [i \in 1..Len(inputs.cascades) |->
                     [losses |-> evaluate_loss_model(inputs.cascades[i].losses),
                      dh_s   |-> inputs.cascades[i].dh_s]]]

RECURSIVE dh_s_sum(_)
dh_s_sum(cascade_table) ==
    IF cascade_table = << >> THEN 0
    ELSE cascade_table[1].dh_s + dh_s_sum(Tail(cascade_table))

\* a breakdown without the correction for the re-heating effect
no_reheat_correction(dhs_total, dhs_sum) == RatInt(1)

\* correction = dhs_total / dhs_sum
reheat_correction(dhs_total, dhs_sum) == RatDiv(RatInt(dhs_total), RatInt(dhs_sum))

loss_types == << "profile", "incidence", "secondary", "clearance", "trailing" >>

loss_column(losses, type) ==
    CASE type = "profile"   -> losses.loss_profile
      [] type = "incidence" -> losses.loss_incidence
      [] type = "secondary" -> losses.loss_secondary
      [] type = "clearance" -> losses.loss_clearance
      [] type = "trailing"  -> losses.loss_trailing

compute_efficiency_breakdown(results) ==
    LET dhs_total == results.h_out - results.h_out_s
        dhs_sum == dh_s_sum(results.cascade)
        correction == reheat_correction(dhs_total, dhs_sum)
    IN  [i \in 1..Len(results.cascade) |->
            LET row == results.cascade[i]
                efficiency_drop ==
                    RatDiv(RatMul(correction, RatInt(row.dh_s)),
                           RatInt(results.h0_in - results.h_out_s))
            IN  [t \in 1..Len(loss_types) |->
                    RatMul(RatDiv(RatInt(loss_column(row.losses, loss_types[t])),
                                  RatInt(row.losses.loss_total)),
                           efficiency_drop)]]

\* lines 1563-1584 and 1587-1606: the metrics that are quotients, and the
\* power
compute_overall_performance(results) ==
    LET omega == results.omega                    \* angular_speed of the code
        efficiency_ts ==
            Rat(results.h0_in - results.h0_out, results.h0_in - results.h_out_s)
        efficiency_ts_drop_kinetic ==
            Rat((results.v_out * results.v_out) \div 2, results.h0_in - results.h_out_s)
        power == results.mass_flow * (results.h0_in - results.h0_out)
    IN  [efficiency_ts |-> efficiency_ts,
         efficiency_ts_drop_kinetic |-> efficiency_ts_drop_kinetic,
         efficiency_ts_drop_losses |->
             RatSub(RatSub(RatInt(1), efficiency_ts), efficiency_ts_drop_kinetic),
         power |-> RatInt(power),
         torque |-> RatDiv(RatInt(power), RatInt(omega)),
         angular_speed |-> RatInt(omega)]

LossChoices ==
    {[Y_p |-> 0, Y_te |-> 0, Y_s |-> 0, Y_cl |-> 0, Y_inc |-> 0, ZTE |-> 0],
     [Y_p |-> 40, Y_te |-> 10, Y_s |-> 60, Y_cl |-> 30, Y_inc |-> 25, ZTE |-> 200],
     [Y_p |-> 40, Y_te |-> 0, Y_s |-> 0, Y_cl |-> 0, Y_inc |-> -5, ZTE |-> 0]}

CascadeChoices == [losses : LossChoices, dh_s : {-2, 2, 3}]

BreakdownCalls ==
    [function : {"compute_efficiency_breakdown"},
     cascades : {c \in SeqsUpTo(CascadeChoices, 2) : c # << >>},
     h0_in : {100}, h_out_s : {90}, h_out : {93, 96}, v_out : {0, 2},
     mass_flow : {3}, omega : {0, 2}]

\* the additional calculations that end evaluate_cascade_series
CallComputeEfficiencyBreakdown ==
    /\ call.function = "compute_efficiency_breakdown"
    /\ result = NoResult
    /\ LET results == series_results(call)
       IN  result' = [kind |-> "value",
                      results |-> results,
                      loss_fractions |-> compute_efficiency_breakdown(results),
                      overall |-> compute_overall_performance(results)]
    /\ UNCHANGED << driver_vars, series_vars, choking_vars, call >>

(***************************************************************************)
(* The operation_points argument of compute_performance.  A performance    *)
(* map is a Python dict: the sequence of its items in insertion order,     *)
(* each with a key and a value that is a scalar or a list.                 *)
(***************************************************************************)
ScalarValue(value) == [kind |-> "scalar", value |-> value]

ListValue(items) == [kind |-> "list", items |-> items]

\* a list is returned as it is, a scalar as a list of one element
ensure_iterable(value) == IF value.kind = "list" THEN value.items ELSE << value.value >>

\* combinations that pair the values by position, as zip does
zip_values(values) ==
    IF values = << >> THEN << << >> >>
    ELSE [n \in 1..Len(values[1]) |->
             [k \in 1..Len(values) |-> values[k][IF n <= Len(values[k]) THEN n ELSE 1]]]

\* itertools.product(*values): the last iterable varies fastest
RECURSIVE itertools_product(_)
itertools_product(values) ==
    IF values = << >> THEN << << >> >>
    ELSE LET rest == itertools_product(Tail(values))
         IN  [n \in 1..(Len(values[1]) * Len(rest)) |->
                 << values[1][((n - 1) \div Len(rest)) + 1] >>
                     \o rest[((n - 1) % Len(rest)) + 1]]

map_keys(performance_map) == [i \in 1..Len(performance_map) |-> performance_map[i].key]

key_index(keys, key) == CHOOSE i \in 1..Len(keys) : keys[i] = key

generate_operation_points(performance_map) ==
    LET keys == map_keys(performance_map)
        values == [i \in 1..Len(performance_map) |->
                      ensure_iterable(performance_map[i].value)]
        combinations == itertools_product(values)
    IN  [n \in 1..Len(combinations) |->
            [key \in SeqToSet(keys) |-> combinations[n][key_index(keys, key)]]]

\* lines 100-106 of compute_performance: the list of points that the loops
\* over the operating points then walk, or the TypeError
checked_operation_points(operation_points_argument) ==
    IF operation_points_argument.kind = "dict"
    THEN [kind |-> "points",
          operation_points |-> generate_operation_points(operation_points_argument.items)]
    ELSE IF operation_points_argument.kind # "list"
    THEN [kind |-> "TypeError"]
    ELSE [kind |-> "points", operation_points |-> operation_points_argument.items]

MapKeys == {"omega", "p_out", "alpha_in"}

MapValues == {ScalarValue(1), ListValue(<< 1, 2 >>), ListValue(<< 3, 4, 5 >>)}

PerformanceMaps ==
    {m \in SeqsUpTo([key : MapKeys, value : MapValues], 3) :
        /\ m # << >>
        /\ \A i, j \in 1..Len(m) : i # j => m[i].key # m[j].key}

OperationPointsArguments ==
    [kind : {"dict"}, items : PerformanceMaps]
        \cup [kind : {"list", "tuple"}, items : SeqsUpTo(ValidPointChoices, 2)]
        \cup [kind : {"None"}, items : {<< >>}]

ComputePerformanceCalls ==
    [function : {"compute_performance"}, operation_points : OperationPointsArguments]

CallComputePerformance ==
    /\ call.function = "compute_performance"
    /\ result = NoResult
    /\ result' = checked_operation_points(call.operation_points)
    /\ UNCHANGED << driver_vars, series_vars, choking_vars, call >>

(***************************************************************************)
(* Specifications.                                                         *)
(***************************************************************************)
\* the driver is not running
DriverIdle ==
    /\ operation_points = << >>
    /\ configured_method = "lm"
    /\ output_dir_exists = FALSE
    /\ pc = "idle"
    /\ error = "none"
    /\ created = {}
    /\ index = 0
    /\ initial_guess = NoneGuess
    /\ guess_index = << >>
    /\ operation_point_data = << >>
    /\ overall_data = << >>
    /\ plane_data = << >>
    /\ cascade_data = << >>
    /\ stage_data = << >>
    /\ solver_data = << >>
    /\ solution_data = << >>
    /\ method = "none"
    /\ success = FALSE
    /\ solver = NoSolver
    /\ variant = 0
    /\ attempts = << >>
    /\ any_converged = FALSE
    /\ case_data = NoCaseData

\* no series evaluation is running
SeriesIdle ==
    /\ geometry = [cascade_type |-> << "stator" >>]
    /\ choking_condition = "deviation"
    /\ angular_speed = 0
    /\ series_pc = "idle"
    /\ SeriesStart

\* no choking evaluation is running
ChokingIdle ==
    /\ choking_model = CHOKING_MODELS[1]
    /\ choking_pc = "idle"
    /\ ChokingStart

CallIdle ==
    /\ call = NoCall
    /\ result = NoResult

Init == DriverInit /\ SeriesIdle /\ ChokingIdle /\ CallIdle

Next == DriverNext

\* a call of compute_performance
Spec == Init /\ [][Next]_vars

SeriesInit ==
    /\ DriverIdle
    /\ SeriesInputs
    /\ series_pc = "validate"
    /\ SeriesStart
    /\ ChokingInputs
    /\ choking_pc = "call"
    /\ ChokingStart
    /\ CallIdle

SeriesNext ==
    \/ ValidateGeometry
    \/ CalculateFullGeometry
    \/ BeginSeries
    \/ EvaluateCascade
    \/ EvaluateInterspace
    \/ AddExitPressureResidual
    \/ EvaluateChoking

\* one evaluation of the residuals of a machine: the geometry check, then
\* evaluate_cascade_series; and one call of evaluate_choking
SeriesSpec == SeriesInit /\ [][SeriesNext]_vars

FunctionInit ==
    /\ DriverIdle
    /\ SeriesIdle
    /\ ChokingIdle
    /\ call \in DeviationCalls \cup ThroatCalls \cup IsentropicThroatCalls
                \cup LagrangianCalls \cup BlockageCalls \cup LossCalls
                \cup BreakdownCalls \cup ComputePerformanceCalls \cup InterspaceCalls
                \cup GeometryCheckCalls
    /\ result = NoResult

FunctionNext ==
    \/ CallGetSubsonicDeviation
    \/ CallEvaluateCascadeThroat
    \/ CallEvaluateCascadeIsentropicThroat
    \/ CallLagrangianGradient
    \/ CallComputeBlockageBoundaryLayer
    \/ CallComputeLosses
    \/ CallComputeEfficiencyBreakdown
    \/ CallComputePerformance
    \/ CallEvaluateCascadeInterspace
    \/ CallCheckAxialTurbineGeometry

\* one call of one of the functions without state
FunctionSpec == FunctionInit /\ [][FunctionNext]_vars

\* a call of compute_performance that is not suspended for ever
FairSpec == Spec /\ WF_vars(Next)

\* the driver when the calls made while a point is recorded may raise
RecordingNext == DriverNext \/ RecordInterrupted

RecordingSpec == Init /\ [][RecordingNext]_vars

(***************************************************************************)
(* Properties of compute_performance and compute_single_operation_point.   *)
(***************************************************************************)
AllPointsValid ==
    \A i \in 1..Len(operation_points) : DOMAIN operation_points[i] = REQUIRED_FIELDS

\* the distance of points i and k of the list
Distance(i, k) == get_operation_point_distance(operation_points[k], operation_points[i])

\* C1: a point whose solve failed (no attempt converged, or an exception)
\* never supplies the initial guess of a later point and never makes a later
\* point fail: every point used as nearest neighbour has a converged solution
\* stored, and no point goes to the except clause because of the guess it got.
C1_FailedPointNeverReused ==
    /\ \A k \in 1..Len(guess_index) :
          guess_index[k] # 0 =>
              /\ solver_data[guess_index[k]].completed
              /\ solver_data[guess_index[k]].success
              /\ solution_data[guess_index[k]].kind = "ndarray"
    /\ pc = "except" => ~initialize_solver_raises(initial_guess)

\* C2: the first point is solved from the default heuristic guess
\* (R=0.5, eta_tt=0.9, eta_ts=0.8, Ma_crit=0.95); every later point k starts
\* from the stored solution of the point among 1..k-1 at the smallest distance
\* of point k, the earliest one when several are equally close.
C2_NearestEarlierPointGuess ==
    \A k \in 1..Len(guess_index) :
        LET j == guess_index[k]
        IN  /\ k = 1 =>
                /\ j = 0
                /\ Len(guess_index) = 1 =>
                      /\ initial_guess = NoneGuess
                      /\ heuristic_parameters(initial_guess)
                           = [R |-> 500, eta_tt |-> 900, eta_ts |-> 800, Ma_crit |-> 950]
            /\ k > 1 =>
                /\ j \in 1..(k - 1)
                /\ \A i \in 1..(k - 1) :
                      /\ Distance(j, k) <= Distance(i, k)
                      /\ Distance(i, k) = Distance(j, k) => j <= i
                /\ k = Len(guess_index) => initial_guess = solution_data[j]
            /\ (k = Len(guess_index) /\ attempts # << >>) =>
                   attempts[1].guess = initial_guess

C2_Witness ==
    /\ Len(guess_index) = 3
    /\ guess_index[3] = 1
    /\ Distance(1, 3) = Distance(2, 3)
    /\ initial_guess.kind = "ndarray"
    /\ attempts # << >>

\* the per-point lists, while and after the loop runs
C3_StatusRecords ==
    /\ pc = "raised" => ~AllPointsValid
    /\ Len(guess_index) <= Len(operation_points)
    /\ Len(solver_data) <= Len(guess_index)
    /\ Len(guess_index) <= Len(solver_data) + 1
    /\ Len(operation_point_data) = Len(solver_data)
    /\ \A i \in 1..Len(operation_point_data) : operation_point_data[i].point = i
    /\ \A i \in 1..Len(solver_data) :
          /\ solver_data[i].completed \in BOOLEAN
          /\ solver_data[i].success \in BOOLEAN
    /\ pc \in {"record", "except"} => index = Len(solver_data) + 1
    /\ pc \in {"write", "done"} =>
          /\ Len(guess_index) = Len(operation_points)
          /\ Len(solver_data) = Len(operation_points)

VariantsUpTo(j) == Cardinality({ i \in 1..j : attempts[i].stage = 4 })

\* the attempts made so far for the current point are in the order of the stages
C4_AttemptOrder ==
    \A j \in 1..Len(attempts) :
        LET a == attempts[j]
            m == VariantsUpTo(j)
        IN  /\ a.stage \in 1..4
            /\ j = 1 => a.stage = 1
            /\ j > 1 => /\ attempts[j - 1].stage <= a.stage
                        /\ a.stage < 4 => attempts[j - 1].stage < a.stage
            /\ a.stage = 1 => a.method = configured_method /\ a.guess = initial_guess
            /\ a.stage = 2 => a.method = "lm" /\ a.guess = initial_guess
            /\ a.stage = 3 => a.method = "lm" /\ a.guess = NoneGuess
            /\ a.stage = 4 =>
                  /\ m <= 11
                  /\ a.guess = DictGuess(95 * (m - 1), 700 + 30 * (m - 1),
                                         600 + 30 * (m - 1), 900)

\* a step that makes the first attempt of a new stage
C4_EntersStage ==
    /\ attempts # << >>
    /\ Len(attempts') = Len(attempts) + 1
    /\ Last(attempts').stage # Last(attempts).stage

\* C4: compute_single_operation_point makes its attempts in this order, each
\* stage being entered only if every earlier attempt failed: (1) the configured
\* method with the given guess, (2) Levenberg-Marquardt with the same guess,
\* (3) Levenberg-Marquardt with the default heuristic guess, (4) the 11
\* heuristic variants of (R, eta_ts, eta_tt, Ma_crit) in grid order.
C4_FallbackOrder ==
    /\ []C4_AttemptOrder
    /\ [][C4_EntersStage => ~any_converged]_vars

C4_Witness ==
    /\ pc = "return"
    /\ Len(attempts) = 14
    /\ attempts[2].stage = 2
    /\ attempts[3].stage = 3
    /\ ~any_converged

\* C5: whenever at least one attempt of compute_single_operation_point
\* converged, the solver it returns holds a converged solution, so the point
\* is reported successful; it is reported unsuccessful only if every attempt
\* failed.
C5_ReturnsConvergedSolver ==
    pc = "record" /\ any_converged => solution_success(solver)

\* C7: compute_performance raises ValueError when the field set of any point
\* differs from exactly {fluid_name, p0_in, T0_in, p_out, alpha_in, omega},
\* before any point is solved and before any directory or file is created;
\* points with exactly these six fields pass validation.
C7_ValidationBeforeAnyWork ==
    /\ ~AllPointsValid =>
          /\ pc \in {"validate", "raised"}
          /\ pc = "raised" => error = "ValueError"
          /\ created = {}
          /\ guess_index = << >>
          /\ attempts = << >>
          /\ solver_data = << >>
    /\ AllPointsValid => pc # "raised" /\ error = "none"

C7_Witness ==
    /\ pc = "raised"
    /\ error = "ValueError"
    /\ \E i \in 1..Len(operation_points) : operation_points[i] = PointExtraField
    /\ \E i \in 1..Len(operation_points) : operation_points[i] \in ValidPointChoices
    /\ created = {}

(***************************************************************************)
(* Properties of evaluate_cascade_series and of the choking sub-solver.    *)
(***************************************************************************)
\* C6: when the property oracle fails during a residual evaluation, the
\* cascade-series evaluation does not propagate the error: the evaluation is
\* not left by an exception and a residual vector is still returned.
C6_OracleFailureAbsorbed ==
    oracle_failed => series_pc # "raised" /\ series_error = "none"

\* the residual labels of cascade c, in the order evaluate_cascade builds them
ExpectedGroup(c, condition) ==
    << Key("loss_error_throat", c), Key("loss_error_exit", c),
       Key("mass_error_throat", c), Key("mass_error_exit", c),
       Key("L*", c), Key("m*", c), Key("Y*", c), Key(condition, c) >>

RECURSIVE ExpectedLabels(_, _)
ExpectedLabels(n, condition) ==
    IF n = 0 THEN << >>
    ELSE ExpectedLabels(n - 1, condition) \o ExpectedGroup(n, condition)

\* C8: for a given number of cascades and given model options the sequence of
\* residual labels is the same whatever the unknowns x make the evaluation do:
\* the group of cascade 1, then cascade 2, ..., each in the same internal
\* order, no label repeated or overwritten, the back-pressure residual last.
C8_ResidualLabelsFixed ==
    /\ \A a, b \in 1..Len(residuals) : residuals[a] = residuals[b] => a = b
    /\ series_pc \in {"interspace", "exit_pressure"} =>
          residuals = ExpectedLabels(cascade, choking_condition)
    /\ series_pc = "done" =>
          /\ residuals = ExpectedLabels(number_of_cascades(geometry), choking_condition)
                           \o << Key("p_out", 0) >>
          /\ Last(residuals) = Key("p_out", 0)

C8_Witness ==
    /\ series_pc = "done"
    /\ number_of_cascades(geometry) = 3
    /\ choking_condition = "mach_unity"
    /\ Len(residuals) = 25

\* C9: for every number of cascades and every choking option the residual
\* vector has as many entries as the unknown vector (the unknowns of each
\* cascade and the single v_in), and each choking mode returns one residual
\* more than the choking sub-unknowns it reads.
C9_SquareSystem ==
    /\ series_pc = "done" =>
          /\ Len(residuals) = Cardinality(variables_read)
          /\ Len(cascade_residual_names(choking_condition)) = Len(cascade_unknowns)
          /\ Len(cascade_residual_names(choking_condition)) - Len(flow_residual_names)
               = Len(critical_unknowns) + 1
    /\ choking_pc = "done" =>
          Len(residuals_critical) = Cardinality(choking_input_read) + 1

C9_Witness ==
    /\ series_pc = "done"
    /\ number_of_cascades(geometry) = 3
    /\ choking_condition = "deviation"
    /\ choking_pc = "done"
    /\ choking_model = CHOKING_MODELS[3]
    /\ Cardinality(variables_read) = 25

\* C10: in every machine that passes the geometry validation and is evaluated,
\* each even row (counting from 0) is a stator evaluated with zero blade speed
\* and each odd row is a rotor evaluated with the angular speed omega: the kind
\* the loss model sees agrees with the blade speed the flow model uses.
C10_RowKindMatchesBladeSpeed ==
    \A r \in 1..Len(results_cascade) :
        LET row == results_cascade[r]
        IN  IF (row.cascade - 1) % 2 = 0
            THEN row.cascade_type = "stator" /\ row.B = 0 /\ row.angular_speed = 0
            ELSE row.cascade_type = "rotor" /\ row.B = 370
                 /\ row.angular_speed = angular_speed

(***************************************************************************)
(* Properties of the functions without state.                              *)
(***************************************************************************)
\* C14: for the aungier and ainley_mathieson models, get_subsonic_deviation
\* returns gauging_angle - delta_0 when Ma_exit < 0.5 and the gauging angle
\* itself (zero deviation) when Ma_exit >= Ma_crit, and the value returned is
\* defined for every Mach number: it does not depend on what the array of
\* deviations held before the masks were applied.
C14_DeviationLaw ==
    (/\ call.function = "get_subsonic_deviation"
     /\ result.kind = "value"
     /\ call.model \in {"aungier", "ainley_mathieson"}) =>
        LET gauging_angle == arccosd(area_ratio(call.geometry))
            delta_0 == IF call.model = "aungier" THEN delta_0_aungier(call.geometry)
                       ELSE delta_0_ainley_mathieson(call.geometry)
        IN  /\ call.Ma_exit < 500 => result.value = gauging_angle - delta_0
            /\ call.Ma_exit >= call.Ma_crit => result.value = gauging_angle
            /\ \A empty \in EmptyChoices :
                  get_subsonic_deviation(call.Ma_exit, call.Ma_crit, call.geometry,
                                         call.model, empty) = result.value

\* C11: in evaluate_cascade_throat the choking residual is
\* cos(beta_model) - cos(beta_exit) exactly when Ma_rel_exit <= Ma_crit
\* (equality included) and Ma_rel_throat - Ma_crit otherwise, Ma_crit being the
\* surrogate value for the inlet relative stagnation state and the total loss.
C11_ThroatChokingResidual ==
    (call.function = "evaluate_cascade_throat" /\ result.kind = "value") =>
        LET Ma_crit == interpolate_critical_state(call.inlet_plane.p0_rel,
                                                  call.inlet_plane.T0_rel, call.Y_tot)
            Ma_rel_exit == call.exit_plane.Ma_rel
            beta_exit == call.exit_plane.beta
        IN  /\ result.critical_state.Ma_rel = Ma_crit
            /\ Ma_rel_exit <= Ma_crit =>
                  \E empty \in EmptyChoices :
                     result.residuals.choking =
                        cosd(sign(beta_exit)
                               * get_subsonic_deviation(Ma_rel_exit, Ma_crit, call.geometry,
                                                        call.deviation_model, empty))
                          - cosd(beta_exit)
            /\ ~(Ma_rel_exit <= Ma_crit) =>
                  result.residuals.choking = call.throat_plane.Ma_rel - Ma_crit

C11_Witness ==
    /\ call.function = "evaluate_cascade_throat"
    /\ result.kind = "value"
    /\ call.exit_plane.Ma_rel = result.critical_state.Ma_rel
    /\ call.deviation_model = "aungier"
    /\ result.residuals.choking # call.throat_plane.Ma_rel - result.critical_state.Ma_rel

\* C12: in evaluate_cascade_isentropic_throat the throat is evaluated at the
\* inlet entropy with flow angle sign(beta_exit) * acos(A_throat / A_out), the
\* critical Mach number reported is 1, and exactly two residuals are returned:
\* the inlet-throat mass balance over the reference mass flow, and
\* Ma_rel_throat - min(Ma_rel_exit, 1); so a zero choking residual means that
\* Ma_rel_throat equals Ma_rel_exit for a subsonic exit and 1 otherwise.
C12_IsentropicThroatResiduals ==
    (call.function = "evaluate_cascade_isentropic_throat" /\ result.kind = "value") =>
        LET Ma_rel_throat == call.throat_plane.Ma_rel
            Ma_rel_exit == call.exit_plane.Ma_rel
        IN  /\ result.cascade_throat_input.s = call.inlet_plane.s
            /\ result.cascade_throat_input.beta =
                  sign(call.exit_plane.beta) * arccosd(area_ratio(call.geometry))
            /\ result.critical_state.Ma_rel = 1000
            /\ Len(result.residual_values) = 2
            /\ result.residual_values[1] * call.reference_values.mass_flow_ref
                  = (call.inlet_plane.mass_flow - call.throat_plane.mass_flow) * 1000
            /\ result.residual_values[2] =
                  Ma_rel_throat - (IF Ma_rel_exit <= 1000 THEN Ma_rel_exit ELSE 1000)
            /\ result.residual_values[2] = 0 =>
                  IF Ma_rel_exit < 1000 THEN Ma_rel_throat = Ma_rel_exit
                  ELSE Ma_rel_throat = 1000

C12_Witness ==
    /\ call.function = "evaluate_cascade_isentropic_throat"
    /\ result.kind = "value"
    /\ call.exit_plane.Ma_rel = 1200
    /\ call.throat_plane.Ma_rel = 1000
    /\ result.residual_values[2] = 0
    /\ result.cascade_throat_input.beta = -30

\* the stationarity residual of Cramer's rule has a value and that value is zero
StationarityZero(J) ==
    LET g == gradients(J)
        a == g.a11 * g.a22 - g.a12 * g.a21
    IN  /\ a # 0
        /\ g.df * a + (g.a22 * g.b1 - g.a12 * g.b2) * g.dg1
                    + (g.a11 * g.b2 - g.a21 * g.b1) * g.dg2 = 0

C15_BlockageInUnitInterval ==
    (call.function = "compute_blockage_boundary_layer" /\ result.kind = "value") =>
        /\ 0 <= result.blockage_factor
        /\ result.blockage_factor < 1000

\* C17: the loss_total returned by compute_losses equals the sum of the five
\* components loss_profile, loss_incidence, loss_trailing, loss_secondary and
\* loss_clearance reported in the same dictionary, which are the components
\* after the factor (1 - Z_TE) has been applied to the profile, trailing-edge
\* and incidence losses.
C17_LossAdditivity ==
    (call.function = "compute_losses" /\ result.kind = "value") =>
        /\ result.losses.loss_total =
               result.losses.loss_profile + result.losses.loss_incidence
                 + result.losses.loss_trailing + result.losses.loss_secondary
                 + result.losses.loss_clearance
        /\ result.losses.loss_profile * 1000 <= call.Y_p * (1000 - call.ZTE)
        /\ result.losses.loss_profile * 1000 > call.Y_p * (1000 - call.ZTE) - 1000
        /\ result.losses.loss_trailing * 1000 <= call.Y_te * (1000 - call.ZTE)
        /\ result.losses.loss_trailing * 1000 > call.Y_te * (1000 - call.ZTE) - 1000
        /\ result.losses.loss_incidence * 1000 <= call.Y_inc * (1000 - call.ZTE)
        /\ result.losses.loss_incidence * 1000 > call.Y_inc * (1000 - call.ZTE) - 1000

C17_Witness ==
    /\ call.function = "compute_losses"
    /\ result.kind = "value"
    /\ call.ZTE > 0
    /\ call.Y_p > 0
    /\ call.Y_te > 0
    /\ call.Y_s > 0
    /\ result.losses.loss_profile < call.Y_p

RECURSIVE RatSum(_)
RatSum(fractions) ==
    IF fractions = << >> THEN [n |-> 0, d |-> 1]
    ELSE RatAdd(fractions[1], RatSum(Tail(fractions)))

BreakdownTotal(loss_fractions) ==
    RatSum([i \in 1..Len(loss_fractions) |-> RatSum(loss_fractions[i])])

\* C16: for non-zero total loss in every cascade and a non-zero sum of dh_s,
\* the efficiency-drop fractions of compute_efficiency_breakdown, summed
\* over all cascades and all five loss types, equal efficiency_ts_drop_losses
\* of compute_overall_performance, so that efficiency_ts + kinetic drop + sum
\* of the per-cascade loss drops = 1.
C16_BreakdownSumsToLossDrop ==
    (/\ call.function = "compute_efficiency_breakdown"
     /\ result.kind = "value"
     /\ \A i \in 1..Len(result.results.cascade) :
            result.results.cascade[i].losses.loss_total # 0
     /\ dh_s_sum(result.results.cascade) # 0) =>
        LET total == BreakdownTotal(result.loss_fractions)
        IN  /\ total.d # 0
            /\ total = result.overall.efficiency_ts_drop_losses
            /\ RatAdd(RatAdd(result.overall.efficiency_ts,
                             result.overall.efficiency_ts_drop_kinetic), total)
                 = [n |-> 1, d |-> 1]

C16_Witness ==
    /\ call.function = "compute_efficiency_breakdown"
    /\ result.kind = "value"
    /\ Len(result.results.cascade) = 2
    /\ \A i \in 1..2 : result.results.cascade[i].losses.loss_total # 0
    /\ result.results.cascade[1].losses # result.results.cascade[2].losses
    /\ dh_s_sum(result.results.cascade) # 0
    /\ dh_s_sum(result.results.cascade) # result.results.h_out - result.results.h_out_s
    /\ result.results.v_out # 0
    /\ result.overall.efficiency_ts_drop_losses.n # 0

\* the range of item i of a performance map, a scalar being a range of one
RangeOf(item) == IF item.value.kind = "list" THEN SeqToSet(item.value.items)
                 ELSE {item.value.value}

RangeLength(item) == IF item.value.kind = "list" THEN Len(item.value.items) ELSE 1

RECURSIVE ProductOfLengths(_)
ProductOfLengths(items) ==
    IF items = << >> THEN 1 ELSE RangeLength(items[1]) * ProductOfLengths(Tail(items))

\* the elements of the Cartesian product of the ranges, as points
CartesianPoints(items) ==
    {point \in [{items[i].key : i \in 1..Len(items)} -> 1..5] :
        \A i \in 1..Len(items) : point[items[i].key] \in RangeOf(items[i])}

\* C18: given a dict of ranges, the points that compute_performance goes on
\* to solve are exactly the elements of the Cartesian product of the ranges
\* (a scalar counting as a range of one element), each once, so their number
\* is the product of the range lengths; a list of points is used unchanged;
\* any other argument type raises TypeError.
C18_OnePointPerCombination ==
    (call.function = "compute_performance" /\ result # NoResult) =>
        LET argument == call.operation_points
        IN  /\ argument.kind = "dict" =>
                /\ result.kind = "points"
                /\ Len(result.operation_points) = ProductOfLengths(argument.items)
                /\ \A point \in CartesianPoints(argument.items) :
                       Cardinality({n \in 1..Len(result.operation_points) :
                                       result.operation_points[n] = point}) = 1
                /\ \A n \in 1..Len(result.operation_points) :
                       result.operation_points[n] \in CartesianPoints(argument.items)
            /\ argument.kind = "list" =>
                /\ result.kind = "points"
                /\ result.operation_points = argument.items
            /\ argument.kind \notin {"dict", "list"} => result.kind = "TypeError"

C18_Witness ==
    /\ call.function = "compute_performance"
    /\ call.operation_points.kind = "dict"
    /\ Len(call.operation_points.items) = 3
    /\ call.operation_points.items[1].value.kind = "scalar"
    /\ result.kind = "points"
    /\ Len(result.operation_points) = 6

\* C19: generate_operation_points orders the points so that the pressure
\* parameters 'p0_in' and 'p_out' are the fastest-varying ones, whatever the
\* order of the keys of the input: as long as a pressure value is left in the
\* ranges, the next point differs from the current one in pressure.
C19_PressureVariesFastest ==
    (/\ call.function = "compute_performance"
     /\ call.operation_points.kind = "dict"
     /\ result.kind = "points") =>
        \A n \in 1..(Len(result.operation_points) - 1) :
            "p_out" \in DOMAIN result.operation_points[n] =>
                \/ result.operation_points[n + 1].p_out
                       # result.operation_points[n].p_out
                \/ \A i \in 1..Len(call.operation_points.items) :
                       call.operation_points.items[i].key = "p_out" =>
                           RangeLength(call.operation_points.items[i]) = 1

\* the rows recorded for point k hold no data of another point
RowsOfOwnPoint(k) ==
    /\ operation_point_data[k].point = k
    /\ \A rows \in {overall_data, plane_data, cascade_data, stage_data} :
           rows[k].empty \/ rows[k].point = k

C21_GeometryNeverChanged ==
    /\ [][geometry' = geometry]_vars
    /\ [](result.kind = "value" =>
            /\ call.geometry = geometry
            /\ \A key \in DOMAIN geometry :
                   key \in DOMAIN result.geom /\ result.geom[key] = geometry[key]
            /\ DOMAIN result.geom = DOMAIN geometry \cup DOMAIN new_parameters(geometry)
            /\ \A key \in DOMAIN new_parameters(geometry) :
                   result.geom[key] = new_parameters(geometry)[key])
    /\ [][result.kind = "value" => result' = result]_vars

C21_Witness ==
    /\ series_pc = "done"
    /\ result.kind = "value"
    /\ Len(geometry.cascade_type) = 2
    /\ result.geom.number_of_stages = 1
    /\ result.geom.radius_tip_out # result.geom.radius_tip_in

\* C30: for every cascade the hub_tip_ratio_in of calculate_full_geometry is
\* the ratio of the hub radius to the tip radius at the inlet station of that
\* cascade, as hub_tip_ratio_out and hub_tip_ratio_throat are the ratios at
\* its outlet and throat stations.
C30_HubTipRatioAtInlet ==
    (call.function = "calculate_full_geometry" /\ result.kind = "value") =>
        \A i \in 1..result.geom.number_of_cascades :
            /\ result.geom.hub_tip_ratio_in[i] =
                   (1000 * geometry.radius_hub[2 * i - 1]) \div geometry.radius_tip[2 * i - 1]
            /\ result.geom.hub_tip_ratio_out[i] =
                   (1000 * geometry.radius_hub[2 * i]) \div geometry.radius_tip[2 * i]
            /\ result.geom.hub_tip_ratio_throat[i] =
                   (1000 * result.geom.radius_hub_throat[i])
                       \div result.geom.radius_tip_throat[i]

\* C22: once an attempt of compute_single_operation_point has converged, no
\* further solver attempt is made for that operating point; in particular the
\* variants of the sweep after the first converged one are not run.
C22_NoAttemptAfterConvergence ==
    [][any_converged => Len(attempts') <= Len(attempts)]_vars

\* C28: compute_single_operation_point terminates after at most 14 solver
\* attempts for one operating point (one with the configured method, at most
\* one Levenberg-Marquardt retry, at most one restart from the default
\* heuristic, at most 11 heuristic variants), an exception raised inside the
\* solve of an attempt counting as a failed attempt, and every attempt after
\* the first uses the Levenberg-Marquardt method.
C28_AtMostFourteenAttempts ==
    /\ [](/\ Len(attempts) <= 14
          /\ Cardinality({k \in 1..Len(attempts) : attempts[k].stage = 1}) <= 1
          /\ Cardinality({k \in 1..Len(attempts) : attempts[k].stage = 2}) <= 1
          /\ Cardinality({k \in 1..Len(attempts) : attempts[k].stage = 3}) <= 1
          /\ Cardinality({k \in 1..Len(attempts) : attempts[k].stage = 4}) <= 11
          /\ \A k \in 2..Len(attempts) : attempts[k].method = "lm"
          /\ Len(attempts) >= 2 => solver.method = "lm"
          /\ (solver.outcome = "raised" /\ pc \in {"stage2", "stage3", "stage4", "sweep"})
                => ~success)
    /\ [][(solver'.outcome = "raised" /\ Len(attempts') > Len(attempts))
             => pc' \in {"stage2", "stage3", "stage4", "sweep"}]_vars
    /\ (pc = "stage1" ~> pc \in {"record", "except"})

C28_Witness ==
    /\ pc = "record"
    /\ Len(attempts) = 14
    /\ attempts[1].method = "hybr"
    /\ solver.outcome = "raised"

\* C26: after k operating points have been processed, each of the per-point
\* lists (operation point, overall, plane, cascade, stage, solver status,
\* solution) holds exactly k entries, entry i belonging to point i, also when
\* an exception is raised part-way through the recording of a point.
C26_ListsAligned ==
    pc \in {"guess", "write", "done"} =>
        LET k == IF pc = "guess" THEN index - 1 ELSE Len(guess_index)
        IN  /\ \A rows \in {operation_point_data, overall_data, plane_data, cascade_data,
                            stage_data, solver_data, solution_data} : Len(rows) = k
            /\ \A i \in 1..k :
                  /\ operation_point_data[i].point = i
                  /\ \A rows \in {overall_data, plane_data, cascade_data, stage_data} :
                         rows[i].empty \/ rows[i].point = i
                  /\ solution_data[i].kind = "ndarray" => solution_data[i].point = i

\* the stationarity equation of unknown `e` multiplied by the determinant of
\* the 2 x 2 system that the equations of unknowns `c` and `d` form for the
\* two multipliers (Cramer's rule), J[r][x] being the derivative of f (r = 1),
\* g1 (r = 2) or g2 (r = 3) by unknown x
ScaledStationarity(J, c, d, e) ==
    LET det  == J[2][c] * J[3][d] - J[3][c] * J[2][d]
        l1   == J[3][d] * (-J[1][c]) - J[3][c] * (-J[1][d])
        l2   == J[2][c] * (-J[1][d]) - J[2][d] * (-J[1][c])
    IN  det * J[1][e] + l1 * J[2][e] + l2 * J[3][e]

C24_PlaneRowsOfEveryStage ==
    /\ Len(results_plane) = 3 * Len(results_cascade)
    /\ \A c \in 1..Len(results_cascade) :
          /\ results_cascade[c].cascade = c
          /\ results_plane[3 * c - 2] = [cascade |-> c, station |-> "inlet"]
          /\ results_plane[3 * c - 1] = [cascade |-> c, station |-> "throat"]
          /\ results_plane[3 * c] = [cascade |-> c, station |-> "exit"]
    /\ series_pc = "cascade" => interspace_calls = cascade - 1 /\ Len(results_cascade) = cascade - 1
    /\ series_pc = "interspace" =>
          /\ interspace_calls = cascade - 1
          /\ Len(results_cascade) = cascade
          /\ cascade < number_of_cascades(geometry)
    /\ series_pc = "done" =>
          LET cascades == number_of_cascades(geometry)
              stages == result.geom.number_of_stages
          IN  /\ interspace_calls = cascades - 1
              /\ Len(results_cascade) = cascades
              /\ Len(results_plane) = 3 * cascades
              /\ stages = cascades \div 2
              /\ \A i \in 0..(stages - 1) :
                    LET rows == stage_plane_rows(i)
                    IN  /\ \A k \in 1..3 : rows[k] + 1 \in 1..Len(results_plane)
                        /\ results_plane[rows[1] + 1] = [cascade |-> 2 * i + 1, station |-> "inlet"]
                        /\ results_plane[rows[2] + 1] = [cascade |-> 2 * i + 1, station |-> "exit"]
                        /\ results_plane[rows[3] + 1] = [cascade |-> 2 * i + 2, station |-> "exit"]
                        /\ results_cascade[2 * i + 1].angular_speed = 0
                        /\ results_cascade[2 * i + 2].angular_speed = angular_speed

C24_Witness ==
    /\ series_pc = "done"
    /\ number_of_cascades(geometry) = 4
    /\ result.geom.number_of_stages = 2
    /\ interspace_calls = 3
    /\ Len(results_plane) = 12
    /\ angular_speed # 0

\* C25: compute_overall_performance yields finite overall metrics for every
\* validated operating point, omega = 0 included: no reported metric, torque in
\* particular, is the result of a division by zero.
C25_OverallMetricsFinite ==
    (/\ call.function = "compute_efficiency_breakdown"
     /\ result.kind = "value"
     /\ validate_operation_point([ValidPoint(1, 0) EXCEPT !.omega = call.omega])) =>
        \A metric \in DOMAIN result.overall : IsFinite(result.overall[metric])

\* C27: between consecutive rows the mass flow rate is continuous: for every
\* blockage setting, with consistent property calls, the mass flow evaluated
\* at the inlet plane of row i + 1 from the outputs of the interspace equals
\* the mass flow evaluated at the exit plane of row i.
C27_MassFlowContinuous ==
    (call.function = "evaluate_cascade_interspace" /\ result.kind = "value") =>
        result.inlet_plane.mass_flow = result.exit_plane.mass_flow

\* C29: in check_axial_turbine_geometry, for each angle parameter
\* (metal_angle_le, metal_angle_te, stagger_angle) the recommended range
\* applied to row k is [min, max] when row k is a stator and [-max, -min] when
\* row k is a rotor, whatever the kinds of the rows checked before row k.
C29_RangeOfRowByItsKind ==
    (/\ call.function = "check_axial_turbine_geometry"
     /\ result.kind = "value"
     /\ call.parameter \in special_angles) =>
        \A k \in 1..Len(result.report) :
            LET limits == recommended_ranges[call.parameter]
            IN  result.report[k].bounds =
                    IF call.cascade_type[k] = "stator"
                    THEN [lb |-> limits.min, ub |-> limits.max]
                    ELSE [lb |-> -limits.max, ub |-> -limits.min]

====
